---- MODULE Spec2Model ----
(***************************************************************************)
(* A model of the device-state synchronisation core of the PPA Contatto    *)
(* integration: the coordinator (custom_components/ppa_contatto/           *)
(* __init__.py) and the API client (custom_components/ppa_contatto/api.py).*)
(*                                                                         *)
(* The module holds these specifications over one set of variables:        *)
(*   Spec           the coordinator: poll cycles and realtime events       *)
(*                  applied to the published device registry;              *)
(*   SpecEvents     events applied to any registry a poll can publish;     *)
(*   SpecAuth       concurrent REST calls, token refresh, authentication;  *)
(*   SpecWs         the realtime transport under overlapping refreshes:    *)
(*                  connect, listener tasks, teardown;                     *)
(*   SpecReconnect  the reconnect supervisor over time: backoff and the    *)
(*                  stability rule.                                        *)
(* An action leaves the variables it does not model unchanged.             *)
(***************************************************************************)
EXTENDS Integers, Sequences, FiniteSets, TLC

VARIABLES
    \* ---- coordinator (PPAContattoDataUpdateCoordinator) ----
    data,               \* self.data: the published snapshot
    websocket_started,  \* self._websocket_started
    update_interval,    \* self.update_interval, in seconds
    pollPc,             \* position of the running _async_update_data
    fetched,            \* local `devices` of the running poll
    enhanced,           \* local `enhanced_devices` of the running poll
    pollResult,         \* how the last poll ended: "none", "ok", "UpdateFailed"
    notified,           \* async_set_updated_data calls made by the last event handler run
    lastEvent,          \* history (SpecEvents): the event_data the last handler run got
    evRepeat,           \* history (SpecEvents): the last handler run got the same event
                        \* as the run before it
    evSince,            \* history (Spec): per serial, the value the latest event gave
                        \* each field since the running poll fetched that device's status
    realtime,           \* history: the realtime step of the running refresh, the way
                        \* it took and what it returned or raised; cleared when
                        \* get_devices has answered
    statusFetch         \* history: whether the latest status fetch of the running or
                        \* last refresh failed

VARIABLES
    \* ---- API client: credentials (PPAContattoAPI) ----
    access_token,       \* self.access_token; a token is a positive number, 0 is None
    refresh_token,      \* self.refresh_token, likewise
    stored,             \* the tokens persisted in config_entry.data
    auth_lock,          \* self._auth_lock: the caller holding it, or "free"
    lockq,              \* the callers waiting for self._auth_lock, first come first
    nextTok,            \* the next token the vendor's auth service issues
    call                \* per calling task: its position in the API operation it runs
                        \* and the history of that operation

VARIABLES
    \* ---- API client: realtime transport (PPAContattoAPI) ----
    websocket_connected,        \* self._websocket_connected
    websocket,                  \* self._websocket: a connection number, 0 is None
    websocket_session,          \* self._websocket_session, likewise
    websocket_listener_task,    \* self._websocket_listener_task, likewise
    websocket_reconnect_count,  \* self._websocket_reconnect_count
    retry_reset_age,            \* time.time() - self._websocket_last_retry_reset in
                                \* seconds; every age above the reset time is one value
    conn,                       \* per connection number: its session, socket and listener
    nextConn,                   \* the number of the next connection
    wsTask,                     \* per task: its position in the transport operation it runs
    failedSinceReset,           \* history: an ensure_websocket_connected call failed since
                                \* _websocket_last_retry_reset was last written
    lastReset,                  \* history: what last wrote _websocket_last_retry_reset,
                                \* and the counter and failures it found
    lastConnection,             \* history of the latest connection: whether the attempt
                                \* that made it had an escalated delay, how it ended, and
                                \* the delay of the first reconnect attempt after it
    connectedCall,              \* history of the latest start_websocket or
                                \* ensure_websocket_connected entered with the flag set
                                \* and the socket open: the function, what it returned,
                                \* and whether it left every field alone and returned
                                \* without waiting
    websocket_namespace_connected,  \* _websocket_namespace_connected
    phaseLog,                   \* history of the latest connection: the socket opened,
                                \* the first "0" frame came in, the first "40" went
                                \* out, the first "40" frame came in, in their order
    lastFrame                   \* history of the latest text frame the listener
                                \* handled: the frame, the namespace flag before and
                                \* after it, whether the socket was open, the frames
                                \* sent while handling it, phaseLog after it, and
                                \* whether the handler raised

VARIABLES
    \* ---- a momentary door (PPAContattoCover of a relay) ----
    cover               \* `momentary_active` and `task` (_momentary_task, by the
                        \* number of the activation that created it, 0 for None)
                        \* are the entity's fields; `written` is the state of the
                        \* last async_write_ha_state; `acts` and `timers` are the
                        \* _activate_momentary_door calls and the
                        \* _reset_momentary_door tasks; `removed` is whether
                        \* async_will_remove_from_hass has run

VARIABLES
    \* ---- a switch entity ----
    sw                  \* the async_turn_on calls of a PPAContattoSwitch

VARIABLES
    \* ---- the config flow ----
    flow                \* validate_input of the setup form: `pc` is where it is,
                        \* `auth` and `result` are how the login and the device
                        \* listing of its connection test ended, `test` is what
                        \* test_connection returned and `outcome` how
                        \* validate_input ended

VARIABLES
    \* ---- an entity reading the registry ----
    reader              \* the registry object an entity got from coordinator.data:
                        \* `holds` is "none", "current" (the object self.data
                        \* refers to) or "earlier" (an object self.data referred
                        \* to before a poll replaced it); `written` is whether
                        \* the object's contents were changed since the entity
                        \* got it

VARIABLES
    \* ---- get_latest_device_status applied to a report list ----
    scan                \* the reports get_device_reports returned and the status
                        \* get_latest_device_status made of them; `done` is FALSE
                        \* when it has not been called

VARIABLES
    \* ---- _is_token_expired_error applied to a response ----
    response_status,    \* the status of the response
    response_text,      \* its body
    expired             \* what _is_token_expired_error returned for them; "none"
                        \* when it has not been called

coordVars == <<data, websocket_started, update_interval, pollPc, fetched, enhanced,
               pollResult, notified, lastEvent, evRepeat, evSince, realtime, statusFetch>>

authVars == <<access_token, refresh_token, stored, auth_lock, lockq, nextTok, call>>

wsVars == <<websocket_connected, websocket, websocket_session, websocket_listener_task,
            websocket_reconnect_count, retry_reset_age, conn, nextConn, wsTask,
            failedSinceReset, lastReset, lastConnection, connectedCall,
            websocket_namespace_connected, phaseLog, lastFrame>>

expiryVars == <<response_status, response_text, expired>>

hassVars == <<flow, cover, sw>>

auxVars == <<expiryVars, scan, reader, hassVars>>

vars == <<coordVars, authVars, wsVars, auxVars>>

----------------------------------------------------------------------------
(* Values *)

\* Python's None, for every optional field
None == "None"

\* the serials the vendor lists for the account, in list order
Serials == <<"X1", "X2">>

\* a serial the registry never holds
UnknownSerial == "X9"

GateValues == {"open", "closed"}
RelayValues == {"on", "off"}

AbsentStatus == [gate |-> None, relay |-> None, last_action |-> None, last_user |-> None]

NoEvent == [serial |-> None, has_status |-> FALSE, gate |-> None, relay |-> None]

SerialSet == {Serials[i] : i \in 1..Len(Serials)}

NoEventSince == [s \in SerialSet |-> [gate |-> None, relay |-> None]]

\* history: no realtime step recorded
NoRealtime == [op |-> "none", path |-> "none", result |-> "none"]

----------------------------------------------------------------------------
(* Vendor data the poll reads *)

\* a report entry {target, createdAt, name}; the free-text target is modelled by
\* what the scan reads of it: which label it contains ("gate:", "relay:" or
\* neither), whether a space follows the label, and the status token after it
Report(kind, spaced, token, createdAt, name) ==
    [kind |-> kind, spaced |-> spaced, token |-> token, createdAt |-> createdAt, name |-> name]

\* the report pages a latest-status fetch can be answered with
ReportLists ==
    { <<>>,
      <<Report("gate", TRUE, "open", "t2", "Alice"), Report("relay", TRUE, "off", "t1", "Bob")>>,
      <<Report("relay", TRUE, "on", "t3", "Bob"), Report("other", TRUE, "x", "t2", "Eve"),
        Report("gate", TRUE, "closed", "t1", "Alice")>>,
      <<Report("gate", FALSE, "open", "t2", "Alice")>> }

\* the raw `status` object a listed device carries
StatusChoices == {[gate |-> "closed", relay |-> "off"], [gate |-> "open", relay |-> "on"]}

\* the device lists GET /devices can be answered with: every serial, in order
DeviceLists ==
    { [i \in 1..Len(Serials) |-> [serial |-> Serials[i], status |-> st]] : st \in StatusChoices }

\* target.split(label + " ")[1]: the token when the label is followed by a space,
\* IndexError otherwise
SplitToken(report) == IF report.spaced THEN [ok |-> TRUE, token |-> report.token]
                      ELSE [ok |-> FALSE, token |-> None]

\* one iteration of the scan loop of get_latest_device_status on `report`
ScanStep(latest, report) ==
    IF report.kind = "gate" /\ latest.gate = None
    THEN [latest EXCEPT !.gate = SplitToken(report).token,
                        !.last_action = IF latest.last_action = None THEN report.createdAt ELSE @,
                        !.last_user = IF latest.last_action = None THEN report.name ELSE @]
    ELSE IF report.kind = "relay" /\ latest.relay = None
    THEN [latest EXCEPT !.relay = SplitToken(report).token,
                        !.last_action = IF latest.last_action = None THEN report.createdAt ELSE @,
                        !.last_user = IF latest.last_action = None THEN report.name ELSE @]
    ELSE latest

\* whether the iteration on `report` raises (the split finds no token)
ScanRaises(latest, report) ==
    \/ report.kind = "gate" /\ latest.gate = None /\ ~SplitToken(report).ok
    \/ report.kind = "relay" /\ latest.relay = None /\ ~SplitToken(report).ok

RECURSIVE ScanReports(_, _, _)
\* the for loop over reports from index i, with its early break
ScanReports(reports, i, latest) ==
    IF i > Len(reports) THEN [raised |-> FALSE, latest |-> latest]
    ELSE IF ScanRaises(latest, reports[i]) THEN [raised |-> TRUE, latest |-> latest]
    ELSE LET next == ScanStep(latest, reports[i])
         IN IF next.gate # None /\ next.relay # None
            THEN [raised |-> FALSE, latest |-> next]
            ELSE ScanReports(reports, i + 1, next)

\* a fetch that answers a failure with a status of its own
GetLatestDeviceStatusUnknown(fetch_ok, reports) ==
    IF ~fetch_ok THEN [AbsentStatus EXCEPT !.gate = "unknown", !.relay = "unknown"]
    ELSE LET r == ScanReports(reports, 1, AbsentStatus)
         IN IF r.raised THEN [AbsentStatus EXCEPT !.gate = "unknown"] ELSE r.latest

\* get_latest_device_status: `fetch_ok` is whether get_device_reports returned
GetLatestDeviceStatus(fetch_ok, reports) ==
    IF ~fetch_ok THEN AbsentStatus
    ELSE LET r == ScanReports(reports, 1, AbsentStatus)
         IN IF r.raised THEN AbsentStatus ELSE r.latest

----------------------------------------------------------------------------
(* Realtime events *)

\* the event_data objects a device/status frame can carry: every combination of
\* present, null and absent fields for the first serial, single-field events for
\* the second, an unlisted serial, a missing status and a missing serial
Events ==
    { [serial |-> Serials[1], has_status |-> TRUE, gate |-> g, relay |-> r] :
        g \in GateValues \cup {None}, r \in RelayValues \cup {None} }
    \cup { [serial |-> Serials[2], has_status |-> TRUE, gate |-> "open", relay |-> None],
           [serial |-> Serials[2], has_status |-> TRUE, gate |-> None, relay |-> "off"],
           [serial |-> UnknownSerial, has_status |-> TRUE, gate |-> "open", relay |-> "on"],
           [serial |-> Serials[1], has_status |-> FALSE, gate |-> None, relay |-> None],
           [serial |-> None, has_status |-> TRUE, gate |-> "open", relay |-> None] }

\* index of the first record of `devices` with this serial, 0 when there is none
FirstIndex(devices, serial) ==
    IF \E i \in 1..Len(devices) : devices[i].serial = serial
    THEN CHOOSE i \in 1..Len(devices) :
            /\ devices[i].serial = serial
            /\ \A j \in 1..(i - 1) : devices[j].serial # serial
    ELSE 0

\* a FieldChanged that skips the comparison with the current value
FieldChangedIfPresent(device, field, value) ==
    value # None

\* lines 97-103 / 106-112: whether the event's `field` is present, non-null and
\* differs from the record's current latest_status value
FieldChanged(device, field, value) ==
    value # None /\ device.latest_status[field] # value

\* an UpdateField that also writes a null field of the event
UpdateFieldWithNull(device, field, value) ==
    IF device.latest_status[field] # value
    THEN [device EXCEPT !.latest_status[field] = value, !.status[field] = value]
    ELSE device

\* an UpdateField that forgets the mirrored raw status
UpdateFieldLatestOnly(device, field, value) ==
    IF FieldChanged(device, field, value)
    THEN [device EXCEPT !.latest_status[field] = value]
    ELSE device

\* the assignments made for a changed field: latest_status and the raw status
UpdateField(device, field, value) ==
    IF FieldChanged(device, field, value)
    THEN [device EXCEPT !.latest_status[field] = value, !.status[field] = value]
    ELSE device

\* the entity's object after a handler wrote `new_data` through self.data, which
\* is the object self.data refers to and no copy of it
WrittenInPlace(held, old_data, new_data) ==
    IF held.holds = "current" /\ new_data # old_data
    THEN [held EXCEPT !.written = TRUE]
    ELSE held

\* _handle_device_update(device_serial, update_data) on snapshot `snap`:
\* the snapshot after it and the number of async_set_updated_data calls it made
HandleDeviceUpdate(snap, device_serial, update_data) ==
    LET i == IF snap.valid THEN FirstIndex(snap.devices, device_serial) ELSE 0
    IN IF i = 0 THEN [snap |-> snap, calls |-> 0]
       ELSE LET d0 == snap.devices[i]
                gate_changed == FieldChanged(d0, "gate", update_data.gate)
                d1 == UpdateField(d0, "gate", update_data.gate)
                relay_changed == FieldChanged(d1, "relay", update_data.relay)
                d2 == UpdateField(d1, "relay", update_data.relay)
                data_changed == gate_changed \/ relay_changed
            IN [snap |-> [snap EXCEPT !.devices[i] = d2],
                calls |-> IF data_changed THEN 1 ELSE 0]

\* _handle_device_status(data): forwards to the callback when serial and status
\* are both present
HandleDeviceStatus(snap, event_data) ==
    IF event_data.serial # None /\ event_data.has_status
    THEN HandleDeviceUpdate(snap, event_data.serial,
                            [gate |-> event_data.gate, relay |-> event_data.relay,
                             serial |-> event_data.serial])
    ELSE [snap |-> snap, calls |-> 0]

----------------------------------------------------------------------------
(* get_latest_device_status over the report lists of the vendor API *)

\* the most reports a page holds here
MaxReports == 3

\* what a report's target and name can be: a gate or relay label followed by a
\* space and a token, text with neither label, and a label with no space
\* after the colon
ReportShapes ==
    {[kind |-> "gate", spaced |-> TRUE, token |-> "open", name |-> "Alice"],
     [kind |-> "gate", spaced |-> TRUE, token |-> "closed", name |-> "Bob"],
     [kind |-> "relay", spaced |-> TRUE, token |-> "on", name |-> "Alice"],
     [kind |-> "relay", spaced |-> TRUE, token |-> "off", name |-> "Bob"],
     [kind |-> "other", spaced |-> TRUE, token |-> "x", name |-> "Eve"],
     [kind |-> "gate", spaced |-> FALSE, token |-> "open", name |-> "Alice"],
     [kind |-> "relay", spaced |-> FALSE, token |-> "on", name |-> "Bob"]}

\* createdAt of the i-th of n reports, newest first: t<n>, ..., t1
CreatedAt(i, n) == "t" \o ToString(n + 1 - i)

\* the report pages of up to MaxReports reports, in return order
ReportPages ==
    UNION { { [i \in 1..n |-> Report(shapes[i].kind, shapes[i].spaced, shapes[i].token,
                                      CreatedAt(i, n), shapes[i].name)] :
                shapes \in [1..n -> ReportShapes] } : n \in 0..MaxReports }

\* get_latest_device_status is called and get_device_reports returns `reports`
ScanPage(reports) ==
    /\ scan' = [done |-> TRUE, reports |-> reports,
                result |-> GetLatestDeviceStatus(TRUE, reports)]
    /\ UNCHANGED <<coordVars, authVars, wsVars, expiryVars, reader, hassVars>>

NextScan == \E reports \in ReportPages : ScanPage(reports)

----------------------------------------------------------------------------
(* The coordinator *)

\* DataUpdateCoordinator.__init__ leaves data unset; update_interval is UPDATE_INTERVAL
NoSnapshot == [valid |-> FALSE, devices |-> <<>>]

UPDATE_INTERVAL == 15

\* timedelta(minutes=5), in seconds
HEALTH_CHECK_INTERVAL == 300

InitCoord ==
    /\ data = NoSnapshot
    /\ websocket_started = FALSE
    /\ update_interval = UPDATE_INTERVAL
    /\ pollPc = "idle"
    /\ fetched = <<>>
    /\ enhanced = <<>>
    /\ pollResult = "none"
    /\ notified = 0
    /\ lastEvent = NoEvent
    /\ evRepeat = FALSE
    /\ evSince = NoEventSince
    /\ realtime = NoRealtime
    /\ statusFetch = "none"

\* the exceptions the API client can raise into _async_update_data
PollErrors == {"TimeoutError", "ClientConnectorError", "ClientError",
               "PPAContattoAuthError", "PPAContattoAPIError", "Exception"}

\* a refresh that lets a timeout through as it is
UpdateDataReraisesTimeout(err) ==
    IF err = "TimeoutError" THEN err ELSE "UpdateFailed"

\* the except clauses of _async_update_data, lines 169-186: what the refresh
\* raises when `err` is raised inside it
UpdateDataRaises(err) ==
    IF err = "TimeoutError" THEN "UpdateFailed"
    ELSE IF err = "ClientConnectorError" THEN "UpdateFailed"
    ELSE IF err = "ClientError" THEN "UpdateFailed"
    ELSE IF err = "PPAContattoAuthError" THEN "UpdateFailed"
    ELSE IF err = "PPAContattoAPIError" THEN "UpdateFailed"
    ELSE "UpdateFailed"

\* the refresh ends in an except clause; the published snapshot is not touched
PollRaiseUpdateFailed(err) ==
    /\ pollPc' = "idle"
    /\ pollResult' = UpdateDataRaises(err)
    /\ fetched' = <<>>
    /\ enhanced' = <<>>

\* start_websocket as the coordinator sees it, lines 204-250: False without an
\* access token, True when connected or when ws_connect succeeds, False when it
\* fails; the except clause at line 246 lets no exception out
StartResult(token, connected, connect) ==
    IF ~token THEN "False"
    ELSE IF connected THEN "True"
    ELSE IF connect THEN "True" ELSE "False"

\* the way ensure_websocket_connected takes, lines 372-409
EnsurePath(connected, token, refresh) ==
    IF connected THEN "connected"
    ELSE IF ~token THEN "no_token"
    ELSE IF refresh # "True" THEN "refresh_failed"
    ELSE "start_websocket"

\* ensure_websocket_connected as the coordinator sees it: True when connected,
\* False without an access token; _refresh_access_token returns True or raises
\* what the login it falls back to raises (lines 146, 170, 174), and line 403
\* catches nothing; then the result of start_websocket
EnsureResult(connected, token, refresh, connect) ==
    LET path == EnsurePath(connected, token, refresh)
    IN IF path = "connected" THEN "True"
       ELSE IF path = "no_token" THEN "False"
       ELSE IF path = "refresh_failed" THEN refresh
       ELSE StartResult(token, FALSE, connect)

\* what the login inside _refresh_access_token raises: authenticate, lines
\* 97-117, raises PPAContattoAuthError, and a timeout of its POST as it is
RefreshRaises == {"PPAContattoAuthError", "TimeoutError"}

\* _async_update_data, lines 127-136: the first realtime start. start_websocket
\* returns a bool and never raises
PollStartWebsocket ==
    /\ pollPc = "idle"
    /\ ~websocket_started
    /\ \E token \in BOOLEAN, connect \in BOOLEAN :
        LET websocket_success == StartResult(token, FALSE, connect) = "True"
        IN /\ websocket_started' = websocket_success
           /\ update_interval' = IF websocket_success THEN HEALTH_CHECK_INTERVAL
                                  ELSE update_interval
           /\ realtime' = [op |-> "start_websocket",
                           path |-> IF token THEN "start_websocket" ELSE "no_token",
                           result |-> StartResult(token, FALSE, connect)]
    /\ pollPc' = "get_devices"
    /\ statusFetch' = "none"
    /\ UNCHANGED <<data, fetched, enhanced, pollResult, notified, lastEvent, evRepeat, evSince>>
    /\ UNCHANGED <<authVars, wsVars, auxVars>>

\* _async_update_data, lines 137-142: ensure_websocket_connected returns a bool,
\* or raises what its token refresh raised
PollEnsureWebsocket ==
    /\ pollPc = "idle"
    /\ websocket_started
    /\ \E connected \in BOOLEAN, token \in BOOLEAN,
          refresh \in {"True"} \cup RefreshRaises, connect \in BOOLEAN :
        LET result == EnsureResult(connected, token, refresh, connect)
        IN /\ realtime' = [op |-> "ensure_websocket_connected",
                           path |-> EnsurePath(connected, token, refresh),
                           result |-> result]
           /\ IF result \in {"True", "False"}
              THEN /\ pollPc' = "get_devices"
                   /\ UNCHANGED <<fetched, enhanced, pollResult>>
              ELSE PollRaiseUpdateFailed(result)
    /\ statusFetch' = "none"
    /\ UNCHANGED <<data, websocket_started, update_interval, notified, lastEvent, evRepeat, evSince>>
    /\ UNCHANGED <<authVars, wsVars, auxVars>>

\* line 167: the result is returned and the coordinator makes it self.data. No
\* await lies between the last status fetch and the assignment
PollPublish(enhanced_devices) ==
    /\ data' = [valid |-> TRUE, devices |-> enhanced_devices]
    /\ reader' = IF reader.holds = "current" THEN [reader EXCEPT !.holds = "earlier"]
                 ELSE reader
    /\ pollResult' = "ok"
    /\ pollPc' = "idle"
    /\ fetched' = <<>>
    /\ enhanced' = <<>>
    /\ evSince' = NoEventSince

\* line 144: devices = await self.api.get_devices() returns, or raises one of its
\* exceptions; with devices listed the poll goes on to await the first status
PollGetDevices ==
    /\ pollPc = "get_devices"
    /\ \/ \E devices \in DeviceLists :
            IF Len(devices) = 0
            THEN PollPublish(<<>>)
            ELSE /\ fetched' = devices
                 /\ enhanced' = <<>>
                 /\ pollPc' = "get_status"
                 /\ UNCHANGED <<data, pollResult, evSince, reader>>
       \/ \E err \in PollErrors :
            PollRaiseUpdateFailed(err) /\ UNCHANGED <<data, evSince, reader>>
    /\ realtime' = NoRealtime
    /\ UNCHANGED <<websocket_started, update_interval, notified, lastEvent, evRepeat,
                   statusFetch>>
    /\ UNCHANGED <<authVars, wsVars, expiryVars, scan, hassVars>>

\* lines 148-164, one iteration of the loop: get_latest_device_status returns for
\* the next device (it never raises); after the last device the result is published
PollGetStatus ==
    /\ pollPc = "get_status"
    /\ \E fetch_ok \in BOOLEAN, reports \in ReportLists :
        LET device == fetched[Len(enhanced) + 1]
            latest_status == GetLatestDeviceStatus(fetch_ok, reports)
            enhanced_devices ==
                Append(enhanced, [serial |-> device.serial, status |-> device.status,
                                  latest_status |-> latest_status])
        IN /\ statusFetch' = IF fetch_ok /\ ~ScanReports(reports, 1, AbsentStatus).raised
                             THEN "ok" ELSE "failed"
           /\ IF Len(enhanced_devices) = Len(fetched)
              THEN PollPublish(enhanced_devices)
              ELSE /\ enhanced' = enhanced_devices
                   /\ evSince' = [evSince EXCEPT ![device.serial] = [gate |-> None, relay |-> None]]
                   /\ UNCHANGED <<data, pollPc, fetched, pollResult, reader>>
    /\ UNCHANGED <<websocket_started, update_interval, notified, lastEvent, evRepeat,
                   realtime>>
    /\ UNCHANGED <<authVars, wsVars, expiryVars, scan, hassVars>>

\* the fields of `event_data` the handler reads for a record it found
EventSinceUpdate(since, event_data) ==
    [since EXCEPT
        ![event_data.serial] =
            [gate |-> IF event_data.gate # None THEN event_data.gate ELSE @.gate,
             relay |-> IF event_data.relay # None THEN event_data.relay ELSE @.relay]]

\* a 42["device/status", event_data] frame reaches _handle_device_status, which
\* calls the coordinator's _handle_device_update: the effect on the coordinator
ApplyEvent(event_data) ==
    /\ LET r == HandleDeviceStatus(data, event_data)
       IN /\ data' = r.snap
          /\ notified' = r.calls
          /\ reader' = WrittenInPlace(reader, data, r.snap)
    /\ UNCHANGED <<websocket_started, update_interval, pollPc, fetched, enhanced, pollResult,
                   realtime, statusFetch>>
    /\ UNCHANGED <<authVars, wsVars, expiryVars, scan, hassVars>>

\* an event arrives while polls run. A listener exists only once start_websocket
\* has succeeded. evSince records the event for a device whose status the running
\* poll has already fetched
DeliverEvent(event_data) ==
    /\ websocket_started
    /\ ApplyEvent(event_data)
    /\ evSince' = IF /\ event_data.has_status
                     /\ data.valid
                     /\ FirstIndex(data.devices, event_data.serial) # 0
                     /\ pollPc = "get_status"
                     /\ \E i \in 1..Len(enhanced) : enhanced[i].serial = event_data.serial
                  THEN EventSinceUpdate(evSince, event_data)
                  ELSE evSince
    /\ UNCHANGED <<lastEvent, evRepeat>>

\* an entity reads coordinator.data and keeps what it got
ReaderTakes ==
    /\ data.valid
    /\ reader' = [holds |-> "current", written |-> FALSE]
    /\ UNCHANGED <<coordVars, authVars, wsVars, expiryVars, scan, hassVars>>

\* the registry after _refresh_device_names(serial) got `fresh_devices`: the
\* first record with the serial is replaced by the first fresh device with it,
\* keeping the record's latest_status
RefreshedNames(snap, serial, fresh_devices) ==
    LET i == FirstIndex(snap.devices, serial)
        j == FirstIndex(fresh_devices, serial)
    IN IF i = 0 \/ j = 0 THEN snap
       ELSE [snap EXCEPT !.devices[i] =
                [serial |-> fresh_devices[j].serial, status |-> fresh_devices[j].status,
                 latest_status |-> snap.devices[i].latest_status]]

\* PPAContattoNameText._refresh_device_names of the entity of `serial`: with the
\* fresh list it writes into coordinator.data and calls async_set_updated_data;
\* when get_devices raises, or there is no registry, it only requests a refresh
RefreshDeviceNames(serial, fetch_ok, fresh_devices) ==
    /\ IF fetch_ok /\ data.valid
       THEN /\ data' = RefreshedNames(data, serial, fresh_devices)
            /\ notified' = 1
            /\ reader' = WrittenInPlace(reader, data, RefreshedNames(data, serial, fresh_devices))
       ELSE UNCHANGED <<data, notified, reader>>
    /\ UNCHANGED <<websocket_started, update_interval, pollPc, fetched, enhanced, pollResult,
                   lastEvent, evRepeat, evSince, realtime, statusFetch>>
    /\ UNCHANGED <<authVars, wsVars, expiryVars, scan, hassVars>>

NextCoord ==
    \/ PollStartWebsocket
    \/ PollEnsureWebsocket
    \/ PollGetDevices
    \/ PollGetStatus
    \/ \E event_data \in Events : DeliverEvent(event_data)

----------------------------------------------------------------------------
(* The API client: token-expiry detection *)

\* text as a sequence of characters
UpperCase == <<"A", "B", "C", "D", "E", "F", "G", "H", "I", "J", "K", "L", "M",
               "N", "O", "P", "Q", "R", "S", "T", "U", "V", "W", "X", "Y", "Z">>
LowerCase == <<"a", "b", "c", "d", "e", "f", "g", "h", "i", "j", "k", "l", "m",
               "n", "o", "p", "q", "r", "s", "t", "u", "v", "w", "x", "y", "z">>

\* str.lower()
Lower(text) ==
    [i \in 1..Len(text) |->
        IF \E k \in 1..Len(UpperCase) : UpperCase[k] = text[i]
        THEN LowerCase[CHOOSE k \in 1..Len(UpperCase) : UpperCase[k] = text[i]]
        ELSE text[i]]

\* `phrase in text`
Contains(text, phrase) ==
    \E i \in 1..(Len(text) - Len(phrase) + 1) :
        SubSeq(text, i, i + Len(phrase) - 1) = phrase

JwtExpired == <<"j", "w", "t", " ", "e", "x", "p", "i", "r", "e", "d">>
TokenExpired == <<"t", "o", "k", "e", "n", " ", "e", "x", "p", "i", "r", "e", "d">>

\* a response body: `parsed` is what json.loads makes of it ("object", a JSON value
\* that is no object, or "invalid"), `name` and `message` are the object's fields
\* ("" when missing), `text` is the raw body
Body(parsed, name, message, text) ==
    [parsed |-> parsed, name |-> name, message |-> message, text |-> text]

EmptyBody == Body("invalid", "", <<>>, <<>>)

\* _is_token_expired_error(status_code, error_text)
IsTokenExpiredError(status_code, body) ==
    IF status_code \in {401, 400} THEN TRUE
    ELSE IF status_code = 500
    THEN IF body.parsed = "object"
         THEN body.name = "TokenExpiredError" \/ Contains(Lower(body.message), JwtExpired)
         ELSE Contains(Lower(body.text), JwtExpired) \/ Contains(Lower(body.text), TokenExpired)
    ELSE FALSE

\* the responses the vendor API gives a REST request
RestResponses ==
    { [status |-> 200, body |-> EmptyBody],
      [status |-> 401, body |-> EmptyBody],
      [status |-> 400, body |-> EmptyBody],
      [status |-> 404, body |-> EmptyBody],
      [status |-> 403, body |-> Body("invalid", "", <<>>, <<"j", "w", "t", " ", "e", "x", "p", "i", "r", "e", "d">>)],
      [status |-> 500, body |-> Body("object", "TokenExpiredError", <<>>, <<>>)],
      [status |-> 500, body |-> Body("object", "Error", <<"J", "W", "T", " ", "E", "x", "p", "i", "r", "e", "d">>, <<>>)],
      [status |-> 500, body |-> Body("object", "Error", <<"b", "o", "o", "m">>, <<>>)],
      [status |-> 500, body |-> Body("invalid", "", <<>>, <<"T", "o", "k", "e", "n", " ", "E", "x", "p", "i", "r", "e", "d">>)],
      [status |-> 500, body |-> Body("invalid", "", <<>>, <<"o", "o", "p", "s">>)] }

\* a request that ends in an exception instead of a response
RequestErrors == {"ClientError", "TimeoutError"}

----------------------------------------------------------------------------
(* The API client: authenticate, _refresh_access_token, REST calls *)

\* the tasks that call the API concurrently on the event loop: the coordinator's
\* refresh and an entity's command
Callers == {"poll", "command"}

\* the operations a task runs: the poll lists devices (_make_authenticated_request)
\* and refreshes the token for a reconnect (ensure_websocket_connected); a command
\* controls a device (_make_authenticated_request_text)
OpsOf(c) == IF c = "poll" THEN {"rest_json", "refresh"} ELSE {"rest_text"}

\* the (method, url) of the request an operation sends
Request(kind) ==
    IF kind = "rest_json" THEN [method |-> "GET", url |-> "/devices"]
    ELSE [method |-> "POST", url |-> "/device/hardware/X1"]

\* the number of tokens the auth service issues in a run
MaxTok == 3

NoToken == 0

IdleCall ==
    [pc |-> "idle", kind |-> "none", ctx |-> "none", sent |-> <<>>,
     refreshCalls |-> 0, renewPosts |-> 0, renewOk |-> FALSE, renewTok |-> NoToken,
     renewRefresh |-> NoToken, authOutcome |-> "none", authRaised |-> "none",
     authCalls |-> 0, refreshRet |-> "none",
     first |-> "none", retry |-> "none", result |-> "none"]

\* no credentials stored, nothing running
InitAuthFresh ==
    /\ access_token = NoToken
    /\ refresh_token = NoToken
    /\ stored = [access_token |-> NoToken, refresh_token |-> NoToken]
    /\ auth_lock = "free"
    /\ lockq = <<>>
    /\ nextTok = 1
    /\ call = [c \in Callers |-> IdleCall]

\* __init__, lines 71-79: the tokens are loaded from the config entry, which holds
\* none or the pair of an earlier session
InitAuth ==
    /\ \E t \in {NoToken, 1} :
        /\ access_token = t
        /\ refresh_token = t
        /\ stored = [access_token |-> t, refresh_token |-> t]
        /\ nextTok = t + 1
    /\ auth_lock = "free"
    /\ lockq = <<>>
    /\ call = [c \in Callers |-> IdleCall]

\* a store that persists nothing
StoreTokensNever(access, refresh) == stored

\* _store_tokens: persists the held pair when an access token is held
StoreTokens(access, refresh) ==
    IF access # NoToken THEN [access_token |-> access, refresh_token |-> refresh]
    ELSE stored

\* the authenticate calls _refresh_access_token makes: with no refresh token held,
\* inside its try block, and in its except clause
RefreshContexts == {"refresh_no_token", "refresh_try", "refresh_except"}

\* a retry that keeps the Authorization header of the first request
RetryTokenStale(rec, access) == rec.sent[1].token

\* line 431: the retry's Authorization header carries self.access_token as it is
\* when _refresh_access_token has returned
RetryToken(rec, access) == access

\* lines 416-421: the first request goes out with the held access token
FirstSend(rec, access) ==
    [rec EXCEPT !.pc = "rest_wait", !.ctx = "none",
                !.sent = <<[req |-> Request(rec.kind), token |-> access]>>]

\* _refresh_access_token returned True: ensure_websocket_connected goes on, a REST
\* call re-sends the same method and url (lines 430-435)
AfterRefreshTrue(rec, access) ==
    IF rec.kind = "refresh"
    THEN [rec EXCEPT !.pc = "done", !.ctx = "none", !.refreshRet = "True", !.result = "True"]
    ELSE [rec EXCEPT !.pc = "retry_wait", !.ctx = "none", !.refreshRet = "True",
                     !.sent = Append(@, [req |-> rec.sent[1].req,
                                         token |-> RetryToken(rec, access)])]

\* how an exception of the request itself leaves a REST call: lines 457-465 turn
\* timeouts and client errors into the API error, lines 513-515 only client errors
RestError(kind, exc) ==
    IF exc = "ClientError" THEN "APIError"
    ELSE IF exc = "TimeoutError" /\ kind = "rest_json" THEN "APIError"
    ELSE exc

\* _refresh_access_token raised `exc`: it leaves the REST call through the except
\* clauses of the request's try block
AfterRefreshRaise(rec, exc) ==
    [rec EXCEPT !.pc = "done", !.ctx = "none", !.refreshRet = exc,
                !.result = IF rec.kind = "refresh" THEN exc ELSE RestError(rec.kind, exc)]

\* authenticate returned True to its caller
AfterAuthenticateOk(rec, access) ==
    IF rec.ctx = "rest_entry" THEN FirstSend(rec, access)
    ELSE AfterRefreshTrue(rec, access)

\* authenticate raised `exc` to a caller that does not catch it
AfterAuthenticateRaise(rec, exc) ==
    IF rec.ctx = "rest_entry"
    THEN [rec EXCEPT !.pc = "done", !.ctx = "none", !.result = exc]
    ELSE AfterRefreshRaise(rec, exc)

\* authenticate is called (line 83): the lock is taken at once when it is free and
\* nobody waits for it, and the login POST goes out; otherwise the caller queues.
\* `lock` is the lock as the caller finds it
EnterAuthenticate(c, rec, ctx, lock) ==
    LET entered == [rec EXCEPT !.ctx = ctx,
                               !.authCalls = IF ctx \in RefreshContexts THEN @ + 1 ELSE @]
    IN IF lock = "free" /\ lockq = <<>>
       THEN /\ auth_lock' = c
            /\ lockq' = lockq
            /\ call' = [call EXCEPT ![c] = [entered EXCEPT !.pc = "auth_post"]]
       ELSE /\ auth_lock' = lock
            /\ lockq' = Append(lockq, c)
            /\ call' = [call EXCEPT ![c] = [entered EXCEPT !.pc = "auth_lock"]]

\* the waiting caller at the head of the queue gets the released lock and posts
\* its login request
AcquireAuthLock(c) ==
    /\ call[c].pc = "auth_lock"
    /\ auth_lock = "free"
    /\ lockq # <<>> /\ Head(lockq) = c
    /\ auth_lock' = c
    /\ lockq' = Tail(lockq)
    /\ call' = [call EXCEPT ![c].pc = "auth_post"]
    /\ UNCHANGED <<access_token, refresh_token, stored, nextTok>>
    /\ UNCHANGED <<coordVars, wsVars, auxVars>>

\* what the login endpoint answers: both tokens, an access token only, a 200
\* without access token, a non-200 status, a client error, a timeout
AuthOutcomes == {"ok", "ok_no_refresh", "no_token", "status", "ClientError", "TimeoutError"}

\* a login that reports a rejected status as a failure of the API
AuthenticateRaisesApiError(outcome) ==
    IF outcome = "TimeoutError" THEN "TimeoutError"
    ELSE IF outcome = "status" THEN "APIError" ELSE "AuthError"

\* the exception authenticate raises for a failed login (lines 97, 104, 112-117;
\* asyncio.TimeoutError is not caught)
AuthenticateRaises(outcome) ==
    IF outcome = "TimeoutError" THEN "TimeoutError" ELSE "AuthError"

\* authenticate, lines 88-117: the login response arrives, the lock is released
AuthResponse(c) ==
    /\ call[c].pc = "auth_post"
    /\ \E outcome \in AuthOutcomes :
        LET rec == [call[c] EXCEPT !.authOutcome = outcome,
                                   !.authRaised = IF outcome \in {"ok", "ok_no_refresh"}
                                                  THEN "none" ELSE AuthenticateRaises(outcome)]
        IN IF outcome \in {"ok", "ok_no_refresh"}
           THEN /\ nextTok <= MaxTok
                /\ access_token' = nextTok
                /\ refresh_token' = IF outcome = "ok" THEN nextTok ELSE NoToken
                /\ stored' = StoreTokens(access_token', refresh_token')
                /\ nextTok' = nextTok + 1
                /\ auth_lock' = "free"
                /\ lockq' = lockq
                /\ call' = [call EXCEPT ![c] = AfterAuthenticateOk(rec, access_token')]
           ELSE /\ access_token' = IF outcome = "no_token" THEN NoToken ELSE access_token
                /\ refresh_token' = IF outcome = "no_token" THEN NoToken ELSE refresh_token
                /\ UNCHANGED <<stored, nextTok>>
                /\ IF rec.ctx = "refresh_try"
                   THEN \* line 170 sits inside the try of line 148: line 172 catches
                        \* what it raises and line 174 calls authenticate again
                        EnterAuthenticate(c, rec, "refresh_except", "free")
                   ELSE /\ auth_lock' = "free"
                        /\ lockq' = lockq
                        /\ call' = [call EXCEPT ![c] =
                                       AfterAuthenticateRaise(rec, AuthenticateRaises(outcome))]
    /\ UNCHANGED <<coordVars, wsVars, auxVars>>

\* _refresh_access_token is called, lines 144-154: without a refresh token it
\* delegates to authenticate, otherwise the renew POST goes out (no lock is taken)
EnterRefresh(c, rec) ==
    LET entered == [rec EXCEPT !.refreshCalls = @ + 1]
    IN IF refresh_token = NoToken
       THEN EnterAuthenticate(c, entered, "refresh_no_token", auth_lock)
       ELSE /\ call' = [call EXCEPT ![c] = [entered EXCEPT !.pc = "renew_post",
                                                           !.renewPosts = @ + 1]]
            /\ UNCHANGED <<auth_lock, lockq>>

\* what the renew endpoint answers: a new pair, a new access token only, a 200
\* without access token, a non-200 status, a client error, a timeout
RenewOutcomes == {"ok_rotate", "ok_keep", "no_token", "status", "ClientError", "TimeoutError"}

\* _refresh_access_token, lines 155-174: the renew response arrives
RenewResponse(c) ==
    /\ call[c].pc = "renew_post"
    /\ \E outcome \in RenewOutcomes :
        LET rec == call[c]
        IN IF outcome \in {"ok_rotate", "ok_keep"}
           THEN /\ nextTok <= MaxTok
                /\ access_token' = nextTok
                /\ refresh_token' = IF outcome = "ok_rotate" THEN nextTok ELSE refresh_token
                /\ stored' = StoreTokens(access_token', refresh_token')
                /\ nextTok' = nextTok + 1
                /\ call' = [call EXCEPT ![c] =
                               AfterRefreshTrue([rec EXCEPT !.renewOk = TRUE, !.renewTok = nextTok,
                                                            !.renewRefresh =
                                                                IF outcome = "ok_rotate"
                                                                THEN nextTok ELSE NoToken],
                                                access_token')]
                /\ UNCHANGED <<auth_lock, lockq>>
           ELSE /\ access_token' = IF outcome = "no_token" THEN NoToken ELSE access_token
                /\ UNCHANGED <<refresh_token, stored, nextTok>>
                /\ EnterAuthenticate(c, rec,
                                     IF outcome \in {"no_token", "status"}
                                     THEN "refresh_try" ELSE "refresh_except",
                                     auth_lock)
    /\ UNCHANGED <<coordVars, wsVars, auxVars>>

\* a first decision that refreshes on every failure
FirstDecisionAlwaysRefresh(response) ==
    IF response.status = 200 THEN "return" ELSE "refresh"

\* lines 422-455: what the first response leads to
FirstDecision(response) ==
    IF response.status = 200 THEN "return"
    ELSE IF IsTokenExpiredError(response.status, response.body) THEN "refresh"
    ELSE "raise"

\* an operation starts: ensure_websocket_connected's token refresh (line 402, only
\* with an access token held) or a REST call (lines 413-421, which authenticates
\* first when no access token is held)
StartCall(c, kind) ==
    /\ call[c].pc \in {"idle", "done"}
    /\ LET rec == [IdleCall EXCEPT !.kind = kind]
       IN IF kind = "refresh"
          THEN access_token # NoToken /\ EnterRefresh(c, rec)
          ELSE IF access_token = NoToken
          THEN EnterAuthenticate(c, rec, "rest_entry", auth_lock)
          ELSE /\ call' = [call EXCEPT ![c] = FirstSend(rec, access_token)]
               /\ UNCHANGED <<auth_lock, lockq>>
    /\ UNCHANGED <<access_token, refresh_token, stored, nextTok>>
    /\ UNCHANGED <<coordVars, wsVars, auxVars>>

\* the first response of a REST call arrives, or the request fails
RestResponse(c) ==
    /\ call[c].pc = "rest_wait"
    /\ LET rec == call[c]
       IN \/ \E response \in RestResponses :
                LET decision == FirstDecision(response)
                IN IF decision = "return"
                   THEN /\ call' = [call EXCEPT ![c] =
                                [rec EXCEPT !.pc = "done", !.first = "ok", !.result = "ok"]]
                        /\ UNCHANGED <<auth_lock, lockq>>
                   ELSE IF decision = "raise"
                   THEN /\ call' = [call EXCEPT ![c] =
                                [rec EXCEPT !.pc = "done", !.first = "other",
                                            !.result = "APIError"]]
                        /\ UNCHANGED <<auth_lock, lockq>>
                   ELSE EnterRefresh(c, [rec EXCEPT !.first =
                            IF IsTokenExpiredError(response.status, response.body)
                            THEN "expired" ELSE "other"])
          \/ \E exc \in RequestErrors :
                /\ call' = [call EXCEPT ![c] =
                        [rec EXCEPT !.pc = "done", !.first = "exc",
                                    !.result = RestError(rec.kind, exc)]]
                /\ UNCHANGED <<auth_lock, lockq>>
    /\ UNCHANGED <<access_token, refresh_token, stored, nextTok>>
    /\ UNCHANGED <<coordVars, wsVars, auxVars>>

\* lines 436-447: the response of the re-sent request arrives, or the request fails
RetryResponse(c) ==
    /\ call[c].pc = "retry_wait"
    /\ LET rec == call[c]
       IN \/ \E response \in RestResponses :
                call' = [call EXCEPT ![c] =
                    IF response.status = 200
                    THEN [rec EXCEPT !.pc = "done", !.retry = "ok", !.result = "ok"]
                    ELSE [rec EXCEPT !.pc = "done", !.retry = "failed", !.result = "APIError"]]
          \/ \E exc \in RequestErrors :
                call' = [call EXCEPT ![c] =
                    [rec EXCEPT !.pc = "done", !.retry = "exc",
                                !.result = RestError(rec.kind, exc)]]
    /\ UNCHANGED <<access_token, refresh_token, stored, auth_lock, lockq, nextTok>>
    /\ UNCHANGED <<coordVars, wsVars, auxVars>>

NextAuth ==
    \/ \E c \in Callers : \E kind \in OpsOf(c) : StartCall(c, kind)
    \/ \E c \in Callers : RestResponse(c)
    \/ \E c \in Callers : RenewResponse(c)
    \/ \E c \in Callers : AcquireAuthLock(c)
    \/ \E c \in Callers : AuthResponse(c)
    \/ \E c \in Callers : RetryResponse(c)

----------------------------------------------------------------------------
(* The config flow: validate_input and test_connection *)

\* the setup form has not been submitted
NoFlow == [pc |-> "idle", auth |-> "none", result |-> "none", test |-> "none",
           outcome |-> "none"]

\* the task of the config flow, on a client of its own (it has no config entry:
\* what it stores is not read here)
FlowCaller == "poll"

\* test_connection, lines 637-665: `result` is how authenticate followed by
\* get_devices ended ("ok" or the exception), `is_list` whether the devices are
\* a list. Every exception is caught and answered with False
TestConnection(result, is_list) ==
    IF result = "ok" /\ is_list THEN "True" ELSE "False"

\* validate_input, lines 32-44: `test` is what test_connection returned or the
\* exception it raised. `raise InvalidAuth` (line 35) stands inside the try, and
\* InvalidAuth is neither of the API errors, so `except Exception` (line 42)
\* catches it and raises CannotConnect
ValidateInput(test) ==
    IF test = "True" THEN "ok"
    ELSE IF test = "False" THEN "cannot_connect"
    ELSE IF test = "AuthError" THEN "invalid_auth"
    ELSE "cannot_connect"

\* the form is submitted: validate_input builds a client (line 30) and
\* test_connection clears its tokens (line 641)
FlowStart ==
    /\ flow.pc \in {"idle", "done"}
    /\ flow' = [NoFlow EXCEPT !.pc = "testing"]
    /\ access_token' = NoToken
    /\ refresh_token' = NoToken
    /\ call' = [call EXCEPT ![FlowCaller] = IdleCall]
    /\ UNCHANGED <<stored, auth_lock, lockq, nextTok>>
    /\ UNCHANGED <<coordVars, wsVars, expiryVars, scan, reader, cover, sw>>

\* lines 644-650: authenticate, then get_devices
FlowRequest ==
    /\ flow.pc = "testing"
    /\ call[FlowCaller].pc = "idle"
    /\ StartCall(FlowCaller, "rest_json")

\* lines 647-665 and validate_input lines 33-44: the listing has ended, the test
\* returns and validate_input ends
FlowEnd ==
    /\ flow.pc = "testing"
    /\ call[FlowCaller].pc = "done"
    /\ \E is_list \in BOOLEAN :
        LET test == TestConnection(call[FlowCaller].result, is_list)
        IN flow' = [pc |-> "done", auth |-> call[FlowCaller].authOutcome,
                    result |-> call[FlowCaller].result, test |-> test,
                    outcome |-> ValidateInput(test)]
    /\ UNCHANGED <<coordVars, authVars, wsVars, expiryVars, scan, reader, cover, sw>>

NextFlow ==
    \/ FlowStart
    \/ FlowRequest
    \/ AuthResponse(FlowCaller)
    \/ RestResponse(FlowCaller)
    \/ RenewResponse(FlowCaller)
    \/ RetryResponse(FlowCaller)
    \/ FlowEnd

----------------------------------------------------------------------------
(* The switch entity: async_turn_on and async_turn_off *)

\* the commands of a run
MaxCommands == 2

\* the task of the service call
SwitchCaller == "command"

\* the names bound in the namespace of switch.py: its imports (lines 2-15),
\* _LOGGER (line 17) and what the module defines
SwitchGlobals ==
    {"annotations", "logging", "Any", "Dict", "List", "Optional", "SwitchEntity",
     "ConfigEntry", "HomeAssistant", "DeviceInfo", "EntityCategory",
     "AddEntitiesCallback", "CoordinatorEntity", "PPAContattoAPI", "DEVICE_TYPE_GATE",
     "DEVICE_TYPE_RELAY", "DOMAIN", "_LOGGER", "async_setup_entry", "PPAContattoSwitch"}

\* the methods of the coordinator a switch looks up
CoordinatorAttributes ==
    {"_handle_device_update", "_async_update_data", "async_request_refresh",
     "async_request_refresh_with_delay"}

\* async_request_refresh_with_delay(1.5) as a task: it sleeps `delay` tenths of
\* a second, then requests the refresh
DelayedRefresh == [delay |-> 15, state |-> "sleeping"]

\* a switch that has not been used: `scheduled` are the refresh tasks it created,
\* `waited` is whether the last command awaited a refresh
InitSwitch ==
    sw = [pc |-> "idle", service |-> "none", control |-> "none", result |-> "none",
          scheduled |-> <<>>, waited |-> FALSE, commands |-> 0]

\* async_turn_on, lines 168-180, after control_device: `control` is how the
\* control call ended ("ok" or the exception it raised). The name asyncio is
\* looked up when line 173 runs, before its argument is evaluated; a name that
\* is not bound raises NameError, which line 178 catches and line 180 raises
\* again
AfterControl(s, control, globals) ==
    IF control # "ok"
    THEN [s EXCEPT !.pc = "done", !.control = control, !.result = control]
    ELSE IF "async_request_refresh_with_delay" \in CoordinatorAttributes
    THEN IF "asyncio" \in globals
         THEN [s EXCEPT !.pc = "done", !.control = control, !.result = "ok",
                        !.scheduled = Append(@, DelayedRefresh)]
         ELSE [s EXCEPT !.pc = "done", !.control = control, !.result = "NameError"]
    ELSE [s EXCEPT !.pc = "done", !.control = control, !.result = "ok", !.waited = TRUE]

\* the service turn_on or turn_off is called: async_turn_off (line 186) is
\* async_turn_on
TurnOnStart(service) ==
    /\ sw.pc \in {"idle", "done"}
    /\ sw.commands < MaxCommands
    /\ sw' = [sw EXCEPT !.pc = "controlling", !.service = service, !.control = "none",
                        !.result = "none", !.waited = FALSE, !.commands = @ + 1]
    /\ call' = [call EXCEPT ![SwitchCaller] = IdleCall]
    /\ UNCHANGED <<access_token, refresh_token, stored, auth_lock, lockq, nextTok>>
    /\ UNCHANGED <<coordVars, wsVars, expiryVars, scan, reader, flow, cover>>

\* line 167: control_device posts the command (api.py line 536)
TurnOnControl ==
    /\ sw.pc = "controlling"
    /\ call[SwitchCaller].pc = "idle"
    /\ StartCall(SwitchCaller, "rest_text")

\* lines 168-180: control_device has returned or raised
TurnOnEnd ==
    /\ sw.pc = "controlling"
    /\ call[SwitchCaller].pc = "done"
    /\ sw' = AfterControl(sw, call[SwitchCaller].result, SwitchGlobals)
    /\ UNCHANGED <<coordVars, authVars, wsVars, expiryVars, scan, reader, flow, cover>>

NextSwitch ==
    \/ \E service \in {"turn_on", "turn_off"} : TurnOnStart(service)
    \/ TurnOnControl
    \/ AuthResponse(SwitchCaller)
    \/ RestResponse(SwitchCaller)
    \/ RenewResponse(SwitchCaller)
    \/ RetryResponse(SwitchCaller)
    \/ TurnOnEnd

----------------------------------------------------------------------------
(* The cover entity of a momentary door *)

\* the activations of a run
MaxActivations == 3

Activations == 1..MaxActivations

NoAct == [pc |-> "idle", result |-> "none"]

\* a _reset_momentary_door task: `started` is whether it has run its first step
\* (entered the try block), `superseded` whether a later activation cancelled
\* it, `reset` whether it has set momentary_active to False and written the state
NoTimer == [state |-> "none", started |-> FALSE, superseded |-> FALSE, reset |-> FALSE]

\* __init__, lines 107-109
InitCover ==
    cover = [momentary_active |-> FALSE, written |-> "none", task |-> 0,
             acts |-> [k \in Activations |-> NoAct],
             timers |-> [k \in Activations |-> NoTimer],
             removed |-> FALSE]

\* what async_write_ha_state writes for a momentary door: is_closed is
\* `not self._momentary_active` (line 153)
IsClosed(momentary_active) == IF momentary_active THEN "open" ELSE "closed"

\* task.done()
TaskDone(timer) == timer.state \in {"none", "done"}

\* task.cancel(): the CancelledError is thrown into the task at its next step
CancelTask(timer) == IF TaskDone(timer) THEN timer ELSE [timer EXCEPT !.state = "cancelling"]

\* the step of the entity leaves everything else alone
CoverStep(c) ==
    /\ cover' = c
    /\ UNCHANGED <<coordVars, authVars, wsVars, expiryVars, scan, reader, flow, sw>>

\* _activate_momentary_door, lines 261-271: a pending task is cancelled, the door
\* shows as opening, the control request goes out
Activate(k) ==
    /\ ~cover.removed
    /\ cover.acts[k].pc = "idle"
    /\ \A j \in 1..(k - 1) : cover.acts[j].pc # "idle"
    /\ LET t == cover.task
           cancelled == IF t # 0 /\ ~TaskDone(cover.timers[t])
                        THEN [cover.timers EXCEPT ![t] = [CancelTask(@) EXCEPT !.superseded = TRUE]]
                        ELSE cover.timers
       IN CoverStep([cover EXCEPT !.timers = cancelled,
                                  !.momentary_active = TRUE,
                                  !.written = IsClosed(TRUE),
                                  !.acts[k].pc = "control"])

\* lines 271-282: control_device returns and the reset task is created, or it
\* raises and the door is reset at once
ControlDone(k) ==
    /\ cover.acts[k].pc = "control"
    /\ \E ok \in BOOLEAN :
        IF ok
        THEN CoverStep([cover EXCEPT !.acts[k] = [pc |-> "done", result |-> "ok"],
                                     !.task = k,
                                     !.timers[k] = [NoTimer EXCEPT !.state = "created"]])
        ELSE CoverStep([cover EXCEPT !.acts[k] = [pc |-> "done", result |-> "raised"],
                                     !.momentary_active = FALSE,
                                     !.written = IsClosed(FALSE)])

\* _reset_momentary_door, lines 286-288: the task runs its first step and sleeps
TimerStart(t) ==
    /\ cover.timers[t].state = "created"
    /\ CoverStep([cover EXCEPT !.timers[t].state = "sleeping", !.timers[t].started = TRUE])

\* lines 290-297: the sleep is over, the door is closed; with the transport down
\* a refresh is awaited. `connected` is _websocket_connected at that moment
TimerFire(t) ==
    /\ cover.timers[t].state = "sleeping"
    /\ \E connected \in BOOLEAN :
        CoverStep([cover EXCEPT !.momentary_active = FALSE,
                                !.written = IsClosed(FALSE),
                                !.timers[t].reset = TRUE,
                                !.timers[t].state = IF connected THEN "done" ELSE "refreshing"])

\* lines 297, 302-305: the fallback refresh returns, or raises and the handler
\* resets the door once more
TimerRefreshDone(t) ==
    /\ cover.timers[t].state = "refreshing"
    /\ \E ok \in BOOLEAN :
        IF ok THEN CoverStep([cover EXCEPT !.timers[t].state = "done"])
        ELSE CoverStep([cover EXCEPT !.timers[t].state = "done",
                                     !.momentary_active = FALSE,
                                     !.written = IsClosed(FALSE)])

\* the cancelled task runs: a task that had started gets the CancelledError at its
\* await and resets the door (lines 299-302); a task cancelled before its first
\* step ends without running any of its code
TimerCancelled(t) ==
    /\ cover.timers[t].state = "cancelling"
    /\ IF cover.timers[t].started
       THEN CoverStep([cover EXCEPT !.timers[t].state = "done",
                                    !.timers[t].reset = TRUE,
                                    !.momentary_active = FALSE,
                                    !.written = IsClosed(FALSE)])
       ELSE CoverStep([cover EXCEPT !.timers[t].state = "done"])

\* async_will_remove_from_hass, lines 363-368: a pending task is cancelled and
\* awaited
RemoveCover ==
    /\ ~cover.removed
    /\ LET t == cover.task
       IN CoverStep([cover EXCEPT !.removed = TRUE,
                                  !.timers = IF t # 0 THEN [@ EXCEPT ![t] = CancelTask(@)]
                                             ELSE @])

NextCover ==
    \/ \E k \in Activations : Activate(k)
    \/ \E k \in Activations : ControlDone(k)
    \/ \E t \in Activations : TimerStart(t)
    \/ \E t \in Activations : TimerFire(t)
    \/ \E t \in Activations : TimerRefreshDone(t)
    \/ \E t \in Activations : TimerCancelled(t)
    \/ RemoveCover

\* the event loop runs every task that can run; commands and the removal come
\* when they come
CoverFairness ==
    \A k \in Activations :
        /\ WF_vars(ControlDone(k))
        /\ WF_vars(TimerStart(k))
        /\ WF_vars(TimerFire(k))
        /\ WF_vars(TimerRefreshDone(k))
        /\ WF_vars(TimerCancelled(k))

----------------------------------------------------------------------------
(* The API client: the realtime transport *)

WEBSOCKET_RECONNECT_DELAY == 5

WEBSOCKET_MAX_RETRIES == 5

WEBSOCKET_BACKOFF_RESET_TIME == 300

\* line 390: the backoff multiplier never exceeds 60
MAX_BACKOFF_MULTIPLIER == 60

\* the connections opened in a run
MaxConn == 2

\* the value self._websocket_reconnect_count climbs to in a run of the reconnect
\* supervisor, and in a run of overlapping refreshes
MaxReconnect == 13

MaxRaceReconnect == 2

\* and in a run of the supervisor under fairness
MaxFairReconnect == 7

\* every age above the reset time
AgedOut == WEBSOCKET_BACKOFF_RESET_TIME + 1

Min(a, b) == IF a <= b THEN a ELSE b

RECURSIVE Pow2(_)
Pow2(n) == IF n = 0 THEN 1 ELSE 2 * Pow2(n - 1)

\* a backoff without the ceiling
ReconnectDelayUncapped(count) ==
    IF count < WEBSOCKET_MAX_RETRIES THEN WEBSOCKET_RECONNECT_DELAY
    ELSE WEBSOCKET_RECONNECT_DELAY * Pow2(count - WEBSOCKET_MAX_RETRIES)

\* a backoff that takes the number of the attempt, not the counter it finds
ReconnectDelayByAttempt(count) ==
    IF count < WEBSOCKET_MAX_RETRIES THEN WEBSOCKET_RECONNECT_DELAY
    ELSE WEBSOCKET_RECONNECT_DELAY
           * Min(Pow2(count + 1 - WEBSOCKET_MAX_RETRIES), MAX_BACKOFF_MULTIPLIER)

\* lines 386-391: the delay for the counter value ensure_websocket_connected finds
ReconnectDelay(count) ==
    IF count < WEBSOCKET_MAX_RETRIES THEN WEBSOCKET_RECONNECT_DELAY
    ELSE WEBSOCKET_RECONNECT_DELAY
           * Min(Pow2(count - WEBSOCKET_MAX_RETRIES), MAX_BACKOFF_MULTIPLIER)

\* `seconds` pass
Elapse(age, seconds) == Min(age + seconds, AgedOut)

\* the tasks that run transport operations: the two refreshes of the coordinator
\* that can be in flight together (the scheduled one and the one an entity's
\* command requests) and the unloading of the config entry
WsTasks == Callers \cup {"unload"}

NoConn == [session |-> "none", socket |-> "none", listener |-> "none"]

IdleTask == [pc |-> "idle", op |-> "none", delay |-> 0, attempt |-> 0, att |-> 0]

\* history: no frame handled yet
NoFrame == [handled |-> FALSE, message |-> <<>>, before |-> FALSE, after |-> FALSE,
            open |-> FALSE, sent |-> <<>>, log |-> <<>>, raised |-> FALSE]

\* __init__, lines 59-69
InitWs ==
    /\ websocket_connected = FALSE
    /\ websocket = 0
    /\ websocket_session = 0
    /\ websocket_listener_task = 0
    /\ websocket_reconnect_count = 0
    /\ retry_reset_age = 0
    /\ conn = [i \in 1..MaxConn |-> NoConn]
    /\ nextConn = 1
    /\ wsTask = [c \in WsTasks |-> IdleTask]
    /\ failedSinceReset = FALSE
    /\ lastReset = [kind |-> "init", failed |-> FALSE, count |-> 0]
    /\ lastConnection = [escalated |-> FALSE, ended |-> "none", firstDelay |-> 0]
    /\ connectedCall = [fn |-> "none", value |-> "none", noop |-> TRUE]
    /\ websocket_namespace_connected = FALSE
    /\ phaseLog = <<>>
    /\ lastFrame = NoFrame

\* the fields the transport operations read and write, as one record
WsState ==
    [connected |-> websocket_connected, websocket |-> websocket,
     session |-> websocket_session, listener_task |-> websocket_listener_task,
     count |-> websocket_reconnect_count, age |-> retry_reset_age,
     conn |-> conn, nextConn |-> nextConn, tasks |-> wsTask,
     started |-> websocket_started, interval |-> update_interval,
     failed |-> failedSinceReset, lastReset |-> lastReset, last |-> lastConnection,
     connectedCall |-> connectedCall,
     namespace_connected |-> websocket_namespace_connected,
     phaseLog |-> phaseLog, lastFrame |-> lastFrame,
     data |-> data, notified |-> notified]

SetWsState(s) ==
    /\ websocket_connected' = s.connected
    /\ websocket' = s.websocket
    /\ websocket_session' = s.session
    /\ websocket_listener_task' = s.listener_task
    /\ websocket_reconnect_count' = s.count
    /\ retry_reset_age' = s.age
    /\ conn' = s.conn
    /\ nextConn' = s.nextConn
    /\ wsTask' = s.tasks
    /\ websocket_started' = s.started
    /\ update_interval' = s.interval
    /\ failedSinceReset' = s.failed
    /\ lastReset' = s.lastReset
    /\ lastConnection' = s.last
    /\ connectedCall' = s.connectedCall
    /\ websocket_namespace_connected' = s.namespace_connected
    /\ phaseLog' = s.phaseLog
    /\ lastFrame' = s.lastFrame
    /\ data' = s.data
    /\ notified' = s.notified
    /\ reader' = WrittenInPlace(reader, data, s.data)
    /\ UNCHANGED <<pollPc, fetched, enhanced, pollResult, lastEvent, evRepeat, evSince,
                   realtime, statusFetch>>
    /\ UNCHANGED <<auth_lock, lockq, call>>
    /\ UNCHANGED <<expiryVars, scan, hassVars>>

\* the operation of task c returns `value` (or raises) to its caller:
\* _async_update_data, lines 130-142, after start_websocket or
\* ensure_websocket_connected, async_unload_entry after stop_websocket
Return(s, c, value) ==
    LET op == s.tasks[c].op
        s1 == [s EXCEPT !.tasks[c] =
                  [IdleTask EXCEPT !.pc = IF c = "unload" THEN "done" ELSE "idle"]]
    IN IF op = "start" /\ value = "True"
       THEN [s1 EXCEPT !.started = TRUE, !.interval = HEALTH_CHECK_INTERVAL]
       ELSE IF op = "ensure" /\ value # "True"
       THEN [s1 EXCEPT !.failed = TRUE]
       ELSE s1

\* history: the latest connection ends, after more than the reset time or earlier
Ended(s) ==
    IF s.last.ended = "up"
    THEN [s EXCEPT !.last.ended = IF s.age > WEBSOCKET_BACKOFF_RESET_TIME
                                  THEN "stable" ELSE "early"]
    ELSE s

\* _cleanup_websocket, lines 345-353: the session is closed, which drops its
\* socket, and the three references are cleared
CleanupEnd(s, c) ==
    LET n == s.session
        closed == IF n # 0 /\ s.conn[n].session = "open"
                  THEN [s.conn EXCEPT ![n].session = "closed",
                                      ![n].socket = IF @ = "open" THEN "closed" ELSE @]
                  ELSE s.conn
        s1 == [s EXCEPT !.conn = closed, !.websocket = 0, !.session = 0,
                        !.listener_task = 0]
    IN Return(s1, c, IF s.tasks[c].op = "stop" THEN "None" ELSE "False")

\* _cleanup_websocket, lines 342-343: a socket that is not closed is closed, and
\* the task waits for the close
CleanupSocket(s, c) ==
    LET n == s.websocket
    IN IF n # 0 /\ s.conn[n].socket = "open"
       THEN [s EXCEPT !.conn[n].socket = "closed", !.tasks[c].pc = "cleanup_socket"]
       ELSE CleanupEnd(s, c)

\* _cleanup_websocket, lines 335-340: a listener that is not done is cancelled
\* (its finally block, lines 266-268, runs) and the task waits for it
CleanupBegin(s, c) ==
    LET n == s.listener_task
        s1 == [s EXCEPT !.connected = FALSE, !.namespace_connected = FALSE]
    IN IF n # 0 /\ s.conn[n].listener = "running"
       THEN [Ended(s1) EXCEPT !.conn[n].listener = "done",
                              !.tasks[c].pc = "cleanup_listener"]
       ELSE CleanupSocket(s1, c)

\* the fields of the client that hold the connection and its retry state
ClientFields(s) == <<s.connected, s.websocket, s.session, s.listener_task, s.count,
                     s.age, s.conn, s.nextConn, s.namespace_connected>>

\* the flag is set and the socket it refers to is open
ConnectedOpen(s) ==
    s.connected /\ s.websocket # 0 /\ s.conn[s.websocket].socket = "open"

\* history: `fn`, entered in state s, leaves task c in state r; a call entered
\* with the transport connected is recorded with what it returned
Entered(fn, s, c, value, r) ==
    IF ConnectedOpen(s)
    THEN [r EXCEPT !.connectedCall =
             [fn |-> fn, value |-> value,
              noop |-> ClientFields(r) = ClientFields(s) /\ r.tasks[c].pc = "idle"]]
    ELSE r

\* start_websocket, lines 204-232: up to the wait for ws_connect
StartSync(s, c, token) ==
    IF token = NoToken
    THEN Entered("start_websocket", s, c, "False", Return(s, c, "False"))
    ELSE IF s.connected
    THEN Entered("start_websocket", s, c, "True", Return(s, c, "True"))
    ELSE LET n == s.nextConn
         IN [s EXCEPT !.session = n, !.nextConn = n + 1,
                      !.conn[n].session = "open",
                      !.tasks[c].pc = "connecting", !.tasks[c].att = n]

\* the connection StartSync opens is within the connections of a run
CanStart(s, token) == token = NoToken \/ s.connected \/ s.nextConn <= MaxConn

\* _async_update_data, lines 128-129: the first connection
CallStartWebsocket(c) ==
    /\ wsTask[c].pc = "idle"
    /\ ~websocket_started
    /\ CanStart(WsState, access_token)
    /\ SetWsState(StartSync([WsState EXCEPT !.tasks[c].op = "start"], c, access_token))
    /\ UNCHANGED <<access_token, refresh_token, stored, nextTok>>

\* start_websocket, lines 232-250: ws_connect returns the socket, or raises
ConnectDone(c) ==
    /\ wsTask[c].pc = "connecting"
    /\ LET s == WsState
           n == wsTask[c].att
       IN \/ /\ conn[n].session = "open"
             /\ SetWsState(Return(
                   [s EXCEPT !.websocket = n, !.conn[n].socket = "open",
                             !.connected = TRUE, !.count = 0, !.age = 0,
                             !.failed = FALSE,
                             !.lastReset = [kind |-> "connect", failed |-> s.failed,
                                            count |-> s.count],
                             !.last = [escalated |->
                                           wsTask[c].delay > WEBSOCKET_RECONNECT_DELAY,
                                       ended |-> "up", firstDelay |-> 0],
                             !.phaseLog = <<"open">>,
                             !.listener_task = n, !.conn[n].listener = "running"],
                   c, "True"))
          \/ SetWsState(CleanupBegin(s, c))
    /\ UNCHANGED <<access_token, refresh_token, stored, nextTok>>

\* _cleanup_websocket goes on when the cancelled listener has ended
CleanupListenerDone(c) ==
    /\ wsTask[c].pc = "cleanup_listener"
    /\ SetWsState(CleanupSocket(WsState, c))
    /\ UNCHANGED <<access_token, refresh_token, stored, nextTok>>

\* _cleanup_websocket goes on when the socket has closed
CleanupSocketDone(c) ==
    /\ wsTask[c].pc = "cleanup_socket"
    /\ SetWsState(CleanupEnd(WsState, c))
    /\ UNCHANGED <<access_token, refresh_token, stored, nextTok>>

\* async_unload_entry, line 57: stop_websocket
StopWebsocket ==
    /\ wsTask["unload"].pc = "idle"
    /\ SetWsState(CleanupBegin([WsState EXCEPT !.tasks["unload"].op = "stop"], "unload"))
    /\ UNCHANGED <<access_token, refresh_token, stored, nextTok>>

\* a listener that leaves the namespace flag as it is when it ends
ListenerEndsKeepingNamespace(s, n) ==
    [Ended(s) EXCEPT !.conn[n].listener = "done", !.connected = FALSE]

\* _websocket_message_listener, lines 264-268: however the loop is left, by a
\* break or by an exception, the finally block clears both flags
ListenerEnds(s, n) ==
    [Ended(s) EXCEPT !.conn[n].listener = "done",
                     !.connected = FALSE,
                     !.namespace_connected = FALSE]

\* _websocket_message_listener, lines 254-268: the stream ends (the server
\* closes the socket, or it fails) and the listener leaves through finally
ListenerExit(n) ==
    /\ conn[n].listener = "running"
    /\ SetWsState(ListenerEnds([WsState EXCEPT !.conn[n].socket = "closed"], n))
    /\ UNCHANGED <<access_token, refresh_token, stored, nextTok>>

\* str.startswith, as lines 274, 281, 286 and 303 use it
StartsWith(message, prefix) ==
    /\ Len(message) >= Len(prefix)
    /\ SubSeq(message, 1, Len(prefix)) = prefix

\* the frames of the sub-protocol, character by character
HandshakeFrame == <<"0">>
NamespaceFrame == <<"4", "0">>
EventFrame == <<"4", "2">>
PongFrame == <<"3">>

\* what json.loads makes of the text after the two characters of the frame type
\* (line 287): it raises JSONDecodeError ("invalid"), or returns a list, of
\* which the handler reads the length, element 0 as the event name and element
\* 1 as the event data (a dict or not), or another JSON value
Json(kind, len, event_name, is_dict, event_data) ==
    [kind |-> kind, len |-> len, event_name |-> event_name, is_dict |-> is_dict,
     event_data |-> event_data]

NoJson == Json("invalid", 0, None, FALSE, NoEvent)

JsonList(len, event_name, is_dict, event_data) ==
    Json("list", len, event_name, is_dict, event_data)

\* a text frame: its characters and the parse of its payload
Frame(text, json) == [text |-> text, json |-> json]

DEVICE_STATUS == "device/status"

\* the text frames the server sends: handshakes, namespace acknowledgments,
\* events that carry no device/status, a ping, and frames of no known type
Frames ==
    {Frame(HandshakeFrame, NoJson), Frame(HandshakeFrame \o <<"{", "}">>, NoJson),
     Frame(NamespaceFrame, NoJson), Frame(NamespaceFrame \o <<"{", "}">>, NoJson),
     Frame(EventFrame \o <<"[", "]">>, JsonList(0, None, FALSE, NoEvent)),
     Frame(EventFrame \o <<"x">>, NoJson),
     Frame(<<"2">>, NoJson), Frame(<<"4">>, NoJson), Frame(<<>>, NoJson)}

\* the event_data of the device/status frames: a gate, a gate and a relay, a
\* relay of the second device
StatusEvents ==
    <<[serial |-> Serials[1], has_status |-> TRUE, gate |-> "open", relay |-> None],
      [serial |-> Serials[1], has_status |-> TRUE, gate |-> "closed", relay |-> "on"],
      [serial |-> Serials[2], has_status |-> TRUE, gate |-> None, relay |-> "off"]>>

\* event frames 42["device/status", event_data], by the number of the event
DeviceStatusFrames ==
    { Frame(EventFrame \o <<"[", "s", ",", "e", ToString(i), "]">>,
            JsonList(2, DEVICE_STATUS, TRUE, StatusEvents[i])) :
        i \in 1..Len(StatusEvents) }

\* event frames whose payload json.loads rejects: 42x (in Frames) and a bare 42
MalformedEventFrames ==
    {Frame(EventFrame \o <<"x">>, NoJson), Frame(EventFrame, NoJson)}

\* event frames with another event name, carrying the data of a status event
OtherEventFrames ==
    { Frame(EventFrame \o <<"[", "o", ",", "e", ToString(i), "]">>,
            JsonList(2, "device/other", TRUE, StatusEvents[i])) :
        i \in 1..Len(StatusEvents) }

\* event frames whose payload is no list, a list of one element, or a
\* device/status event whose data is no dict
OddEventFrames ==
    {Frame(EventFrame \o <<"{", "}">>, Json("object", 0, None, FALSE, NoEvent)),
     Frame(EventFrame \o <<"[", "s", "]">>, JsonList(1, DEVICE_STATUS, FALSE, NoEvent)),
     Frame(EventFrame \o <<"[", "s", ",", "1", "]">>,
           JsonList(2, DEVICE_STATUS, FALSE, NoEvent))}

\* every text frame of the model
ListenerFrames ==
    Frames \cup DeviceStatusFrames \cup MalformedEventFrames \cup OtherEventFrames
           \cup OddEventFrames

\* `self._websocket and not self._websocket.closed`, lines 277 and 305-306
SocketOpen(s) == s.websocket # 0 /\ s.conn[s.websocket].socket = "open"

\* history: the step m of the handshake is logged when it first happens
Logged(log, m) ==
    IF \E i \in 1..Len(log) : log[i] = m THEN log ELSE Append(log, m)

\* lines 286-299: whether the frame is an event frame whose payload parses to
\* a list of two or more elements named device/status
IsDeviceStatus(message) ==
    /\ ~StartsWith(message.text, HandshakeFrame)
    /\ ~StartsWith(message.text, NamespaceFrame)
    /\ StartsWith(message.text, EventFrame)
    /\ message.json.kind = "list"
    /\ message.json.len >= 2
    /\ message.json.event_name = DEVICE_STATUS

\* lines 294-295 and _handle_device_status, lines 317-329: the event reaches the
\* coordinator's callback when its data is a dict with a serial and a status
Dispatch(s, message) ==
    IF IsDeviceStatus(message) /\ message.json.is_dict
    THEN LET r == HandleDeviceStatus(s.data, message.json.event_data)
         IN [s EXCEPT !.data = r.snap, !.notified = r.calls]
    ELSE s

\* a handler that lets the JSONDecodeError of a malformed event frame escape
HandlerRaisesOnBadJson(message) ==
    /\ StartsWith(message.text, EventFrame)
    /\ message.json.kind = "invalid"

\* lines 298-299 and 310-311: JSONDecodeError is caught where the payload is
\* parsed and every other Exception at the end of the handler, so the handler
\* returns normally for every frame
HandlerRaises(message) == FALSE

\* _handle_websocket_message, lines 270-313: a "0" frame is answered with "40"
\* on an open socket, a "40" frame sets the namespace flag, a "42" frame is an
\* event, and "3" follows every frame but "0" once the flag is set and the
\* socket is open
HandleWebsocketMessage(s, message) ==
    LET handshake == StartsWith(message.text, HandshakeFrame)
        ack == ~handshake /\ StartsWith(message.text, NamespaceFrame)
        open == SocketOpen(s)
        request == IF handshake /\ open THEN <<NamespaceFrame>> ELSE <<>>
        namespace == s.namespace_connected \/ ack
        raised == HandlerRaises(message)
        pong == IF ~raised /\ ~handshake /\ namespace /\ open
                THEN <<PongFrame>> ELSE <<>>
        log1 == IF handshake THEN Logged(s.phaseLog, "in0") ELSE s.phaseLog
        log2 == IF request # <<>> THEN Logged(log1, "out40") ELSE log1
        log3 == IF ack THEN Logged(log2, "in40") ELSE log2
    IN [Dispatch(s, message) EXCEPT
                 !.namespace_connected = namespace,
                 !.phaseLog = log3,
                 !.lastFrame = [handled |-> TRUE, message |-> message.text,
                                before |-> s.namespace_connected,
                                after |-> namespace, open |-> open,
                                sent |-> request \o pong, log |-> log3,
                                raised |-> raised]]

\* _websocket_message_listener, lines 254-268: the listener of connection n takes
\* a text frame from its socket and handles it; an exception out of the handler
\* would end the listener through except and finally
WebsocketMessageListener(n, message) ==
    /\ conn[n].listener = "running"
    /\ conn[n].socket = "open"
    /\ LET s == HandleWebsocketMessage(WsState, message)
       IN SetWsState(IF s.lastFrame.raised THEN ListenerEnds(s, n) ELSE s)
    /\ UNCHANGED <<access_token, refresh_token, stored, nextTok>>

\* lines 375-383: the stability rule
StabilityReset(s) ==
    IF s.age > WEBSOCKET_BACKOFF_RESET_TIME
    THEN [s EXCEPT !.count = 0, !.age = 0, !.failed = FALSE,
                   !.lastReset = [kind |-> "stability", failed |-> s.failed,
                                  count |-> s.count]]
    ELSE s

\* a supervisor that gives up once the standard retries are used
EnsureSyncGivingUp(s, c, token) ==
    IF s.connected /\ s.websocket # 0 /\ s.conn[s.websocket].socket # "closed"
    THEN Entered("ensure_websocket_connected", s, c, "True", Return(s, c, "True"))
    ELSE IF s.count >= WEBSOCKET_MAX_RETRIES THEN Return(s, c, "False")
    ELSE LET s1 == StabilityReset(s)
             delay == ReconnectDelay(s1.count)
             s2 == [s1 EXCEPT !.count = @ + 1]
         IN IF token = NoToken THEN Return(s2, c, "False")
            ELSE [s2 EXCEPT !.tasks[c].pc = "refresh", !.tasks[c].delay = delay,
                            !.tasks[c].attempt = s2.count,
                            !.last.firstDelay = IF s.last.ended \in {"stable", "early"}
                                                   /\ @ = 0
                                                THEN delay ELSE @]

\* a supervisor that takes every counter for an escalated one
EnsureSyncEscalated(s, c, token) ==
    IF s.connected /\ s.websocket # 0 /\ s.conn[s.websocket].socket # "closed"
    THEN Entered("ensure_websocket_connected", s, c, "True", Return(s, c, "True"))
    ELSE LET s1 == StabilityReset(s)
             delay == ReconnectDelay(s1.count + WEBSOCKET_MAX_RETRIES + 1)
             s2 == [s1 EXCEPT !.count = @ + 1]
         IN IF token = NoToken THEN Return(s2, c, "False")
            ELSE [s2 EXCEPT !.tasks[c].pc = "refresh", !.tasks[c].delay = delay,
                            !.tasks[c].attempt = s2.count,
                            !.last.firstDelay = IF s.last.ended \in {"stable", "early"}
                                                   /\ @ = 0
                                                THEN delay ELSE @]

\* ensure_websocket_connected, lines 372-404: up to the token refresh
EnsureSync(s, c, token) ==
    IF s.connected /\ s.websocket # 0 /\ s.conn[s.websocket].socket # "closed"
    THEN Entered("ensure_websocket_connected", s, c, "True", Return(s, c, "True"))
    ELSE LET s1 == StabilityReset(s)
             delay == ReconnectDelay(s1.count)
             s2 == [s1 EXCEPT !.count = @ + 1]
         IN IF token = NoToken THEN Return(s2, c, "False")
            ELSE [s2 EXCEPT !.tasks[c].pc = "refresh", !.tasks[c].delay = delay,
                            !.tasks[c].attempt = s2.count,
                            !.last.firstDelay = IF s.last.ended \in {"stable", "early"}
                                                   /\ @ = 0
                                                THEN delay ELSE @]

\* _async_update_data, line 139: every later refresh; the counter stays below `limit`
CallEnsureWebsocketConnected(c, limit) ==
    /\ wsTask[c].pc = "idle"
    /\ websocket_started
    /\ websocket_reconnect_count < limit
    /\ SetWsState(EnsureSync([WsState EXCEPT !.tasks[c].op = "ensure"], c, access_token))
    /\ UNCHANGED <<access_token, refresh_token, stored, nextTok>>

\* what _refresh_access_token ends with: True with a new access token, or the
\* exception of a failed authenticate, which can leave no access token
RefreshEnds == {"True", "raise", "raise_no_token"}

\* ensure_websocket_connected, lines 402-407: _refresh_access_token has ended
EnsureRefreshDone(c) ==
    /\ wsTask[c].pc = "refresh"
    /\ \E outcome \in RefreshEnds :
        IF outcome = "True"
        THEN /\ nextTok <= MaxTok
             /\ access_token' = nextTok
             /\ refresh_token' = nextTok
             /\ stored' = StoreTokens(access_token', refresh_token')
             /\ nextTok' = nextTok + 1
             /\ SetWsState([WsState EXCEPT !.tasks[c].pc = "sleep"])
        ELSE /\ access_token' = IF outcome = "raise" THEN access_token ELSE NoToken
             /\ UNCHANGED <<refresh_token, stored, nextTok>>
             /\ SetWsState(Return(WsState, c, "raise"))

\* ensure_websocket_connected, lines 407-409: the sleep is over, start_websocket
SleepDone(c) ==
    /\ wsTask[c].pc = "sleep"
    /\ LET s == [WsState EXCEPT !.age = Elapse(@, wsTask[c].delay)]
       IN /\ CanStart(s, access_token)
          /\ SetWsState(StartSync(s, c, access_token))
    /\ UNCHANGED <<access_token, refresh_token, stored, nextTok>>

\* no refresh runs: update_interval passes until the next scheduled one
WaitUpdateInterval ==
    /\ \A c \in Callers : wsTask[c].pc = "idle"
    /\ retry_reset_age < AgedOut
    /\ SetWsState([WsState EXCEPT !.age = Elapse(@, update_interval)])
    /\ UNCHANGED <<access_token, refresh_token, stored, nextTok>>

\* _async_update_data, line 144: get_devices follows the transport call, and with
\* no access token held its REST call authenticates first (lines 413-414); the
\* login succeeds or raises
RestAuthenticate(c) ==
    /\ wsTask[c].pc = "idle"
    /\ access_token = NoToken
    /\ \E outcome \in {"ok", "raise"} :
        IF outcome = "ok"
        THEN /\ nextTok <= MaxTok
             /\ access_token' = nextTok
             /\ refresh_token' = nextTok
             /\ stored' = StoreTokens(access_token', refresh_token')
             /\ nextTok' = nextTok + 1
        ELSE UNCHANGED <<access_token, refresh_token, stored, nextTok>>
    /\ SetWsState(WsState)

\* a REST call of an entity meets an expired token while the transport stays up:
\* _refresh_access_token, lines 155-170, takes an answer that carries no access
\* token, and the login it falls back to fails (authenticate, lines 91-97)
RestRefreshFails ==
    /\ access_token # NoToken
    /\ access_token' = NoToken
    /\ UNCHANGED <<refresh_token, stored, nextTok>>
    /\ SetWsState(WsState)

\* the refreshes that overlap, the listeners, the unloading
NextWs ==
    \/ \E c \in Callers : CallStartWebsocket(c)
    \/ \E c \in Callers : CallEnsureWebsocketConnected(c, MaxRaceReconnect)
    \/ \E c \in Callers : EnsureRefreshDone(c)
    \/ \E c \in Callers : SleepDone(c)
    \/ \E c \in Callers : ConnectDone(c)
    \/ \E c \in WsTasks : CleanupListenerDone(c)
    \/ \E c \in WsTasks : CleanupSocketDone(c)
    \/ \E n \in 1..MaxConn : ListenerExit(n)
    \/ StopWebsocket
    \/ RestRefreshFails

\* the task of the scheduled refresh
Scheduled == "poll"

\* one refresh after the other, update_interval apart, and the listeners; the
\* counter stays below `limit`
Reconnect(limit) ==
    \/ CallStartWebsocket(Scheduled)
    \/ CallEnsureWebsocketConnected(Scheduled, limit)
    \/ EnsureRefreshDone(Scheduled)
    \/ SleepDone(Scheduled)
    \/ ConnectDone(Scheduled)
    \/ \E n \in 1..MaxConn : ListenerExit(n)
    \/ RestAuthenticate(Scheduled)
    \/ WaitUpdateInterval

\* one refresh after the other, the listener handling the frames of its
\* socket, and the unloading
NextFrames ==
    \/ CallStartWebsocket(Scheduled)
    \/ CallEnsureWebsocketConnected(Scheduled, MaxRaceReconnect)
    \/ EnsureRefreshDone(Scheduled)
    \/ SleepDone(Scheduled)
    \/ ConnectDone(Scheduled)
    \/ \E n \in 1..MaxConn, message \in Frames : WebsocketMessageListener(n, message)
    \/ \E n \in 1..MaxConn : ListenerExit(n)
    \/ StopWebsocket
    \/ \E c \in WsTasks : CleanupListenerDone(c)
    \/ \E c \in WsTasks : CleanupSocketDone(c)

\* the same with refreshes that overlap: a second caller runs its first
\* start_websocket while the scheduled one connects or reconnects
NextFramesOverlap ==
    \/ \E c \in Callers : CallStartWebsocket(c)
    \/ CallEnsureWebsocketConnected(Scheduled, MaxRaceReconnect)
    \/ EnsureRefreshDone(Scheduled)
    \/ SleepDone(Scheduled)
    \/ \E c \in Callers : ConnectDone(c)
    \/ \E n \in 1..MaxConn, message \in Frames : WebsocketMessageListener(n, message)
    \/ \E n \in 1..MaxConn : ListenerExit(n)
    \/ StopWebsocket
    \/ \E c \in WsTasks : CleanupListenerDone(c)
    \/ \E c \in WsTasks : CleanupSocketDone(c)

\* one connection from its start to its end: the listener handles every frame
\* of the model, the stream ends, or the entry is unloaded
NextListener ==
    \/ CallStartWebsocket(Scheduled)
    \/ ConnectDone(Scheduled)
    \/ \E n \in 1..MaxConn, message \in ListenerFrames :
          WebsocketMessageListener(n, message)
    \/ \E n \in 1..MaxConn : ListenerExit(n)
    \/ StopWebsocket
    \/ \E c \in WsTasks : CleanupListenerDone(c)
    \/ \E c \in WsTasks : CleanupSocketDone(c)

NextReconnect == Reconnect(MaxReconnect)

NextReconnectFair == Reconnect(MaxFairReconnect)

----------------------------------------------------------------------------
(* _is_token_expired_error over the responses of the vendor API *)

TokenExpiredErrorText == <<"T", "o", "k", "e", "n", "E", "x", "p", "i", "r", "e", "d",
                           "E", "r", "r", "o", "r">>

\* the messages and raw texts of error bodies
ErrorTexts ==
    { <<>>,
      <<"b", "o", "o", "m">>,
      <<"j", "w", "t", " ", "e", "x", "p", "i", "r", "e", "d">>,
      <<"J", "W", "T", " ", "E", "x", "p", "i", "r", "e", "d">>,
      <<"t", "o", "k", "e", "n", " ", "e", "x", "p", "i", "r", "e", "d">>,
      <<"T", "o", "k", "e", "n", " ", "E", "x", "p", "i", "r", "e", "d">>,
      <<"j", "w", "t", "e", "x", "p", "i", "r", "e", "d">> }

\* the body {"name": name, "message": message}: its raw text holds both
ObjectBody(name, message) ==
    Body("object", name, message,
         (IF name = "TokenExpiredError" THEN TokenExpiredErrorText ELSE <<"E", "r", "r">>)
           \o <<":">> \o message)

\* the bodies of the responses: JSON objects with a name and a message, JSON
\* values that are no object, and text that is no JSON
ErrorBodies ==
    { ObjectBody(name, message) : name \in {"TokenExpiredError", "Error"},
                                  message \in ErrorTexts }
    \cup { Body(parsed, "", <<>>, text) : parsed \in {"other", "invalid"},
                                         text \in ErrorTexts }

StatusCodes == {200, 400, 401, 403, 404, 500, 502, 503}

InitExpiryIdle ==
    /\ response_status = 0
    /\ response_text = EmptyBody
    /\ expired = "none"

\* get_latest_device_status has not been called
InitScanIdle == scan = [done |-> FALSE, reports |-> <<>>, result |-> AbsentStatus]

\* no entity holds the registry
NoReader == [holds |-> "none", written |-> FALSE]

InitReaderNone == reader = NoReader

InitFlowIdle == flow = NoFlow

InitHass == InitFlowIdle /\ InitCover /\ InitSwitch

InitAux == InitExpiryIdle /\ InitScanIdle /\ InitReaderNone /\ InitHass

\* a response arrives and _is_token_expired_error classifies it
ClassifyResponse(status, body) ==
    /\ response_status' = status
    /\ response_text' = body
    /\ expired' = IF IsTokenExpiredError(status, body) THEN "True" ELSE "False"
    /\ UNCHANGED <<coordVars, authVars, wsVars, scan, reader, hassVars>>

NextExpiry == \E status \in StatusCodes, body \in ErrorBodies : ClassifyResponse(status, body)

----------------------------------------------------------------------------
(* Specifications *)

Init == InitCoord /\ InitAuthFresh /\ InitWs /\ InitAux

Next == NextCoord

\* the coordinator: poll cycles interleaved with realtime events
Spec == Init /\ [][Next]_vars


\* the refreshes alone, one after the other
NextRefresh ==
    \/ PollStartWebsocket
    \/ PollEnsureWebsocket
    \/ PollGetDevices
    \/ PollGetStatus

InitSpecRefresh == InitCoord /\ InitAuthFresh /\ InitWs /\ InitAux

SpecRefresh == InitSpecRefresh /\ [][NextRefresh]_vars

\* the registry and the entities reading it: polls, realtime events and name
\* refreshes
NextReaders ==
    \/ NextRefresh
    \/ \E i \in 1..Len(StatusEvents) : DeliverEvent(StatusEvents[i])
    \/ ReaderTakes
    \/ \E serial \in SerialSet, fetch_ok \in BOOLEAN, fresh_devices \in DeviceLists :
          RefreshDeviceNames(serial, fetch_ok, fresh_devices)

InitSpecReaders == InitCoord /\ InitAuthFresh /\ InitWs /\ InitAux

SpecReaders == InitSpecReaders /\ [][NextReaders]_vars

\* the config flow with a client of its own
InitSpecFlow == InitCoord /\ InitAuthFresh /\ InitWs /\ InitAux

SpecFlow == InitSpecFlow /\ [][NextFlow]_vars

\* a momentary door under commands and removal
InitSpecCover == InitCoord /\ InitAuthFresh /\ InitWs /\ InitAux

SpecCover == InitSpecCover /\ [][NextCover]_vars

\* the same with the event loop running every task
SpecCoverFair == InitSpecCover /\ [][NextCover]_vars /\ CoverFairness

\* a switch under commands
InitSpecSwitch == InitCoord /\ InitAuth /\ InitWs /\ InitAux

SpecSwitch == InitSpecSwitch /\ [][NextSwitch]_vars

\* the API client under concurrent callers
InitSpecAuth == InitCoord /\ InitAuth /\ InitWs /\ InitAux

SpecAuth == InitSpecAuth /\ [][NextAuth]_vars

\* the realtime transport under overlapping refreshes and unloading
InitSpecWs == InitCoord /\ InitAuth /\ InitWs /\ InitAux

SpecWs == InitSpecWs /\ [][NextWs]_vars

\* the reconnect supervisor over time
InitSpecReconnect == InitCoord /\ InitAuth /\ InitWs /\ InitAux

SpecReconnect == InitSpecReconnect /\ [][NextReconnect]_vars

\* the reconnect supervisor when refreshes keep being scheduled, sleeps end, and
\* the server accepts logins, token renewals and connections again and again
FairReconnect ==
    /\ WF_vars(CallStartWebsocket(Scheduled))
    /\ WF_vars(CallEnsureWebsocketConnected(Scheduled, MaxFairReconnect))
    /\ WF_vars(SleepDone(Scheduled))
    /\ SF_vars(RestAuthenticate(Scheduled) /\ access_token' # NoToken)
    /\ SF_vars(EnsureRefreshDone(Scheduled) /\ wsTask'[Scheduled].pc = "sleep")
    /\ SF_vars(ConnectDone(Scheduled) /\ websocket_connected')

SpecReconnectFair == InitSpecReconnect /\ [][NextReconnectFair]_vars /\ FairReconnect

\* the expiry predicate over the responses
InitSpecFrames == InitCoord /\ InitAuth /\ InitWs /\ InitAux

SpecFrames == InitSpecFrames /\ [][NextFrames]_vars

InitSpecFramesOverlap == InitCoord /\ InitAuth /\ InitWs /\ InitAux

SpecFramesOverlap == InitSpecFramesOverlap /\ [][NextFramesOverlap]_vars

\* get_latest_device_status over the report lists
InitSpecScan == InitCoord /\ InitAuthFresh /\ InitWs /\ InitAux

SpecScan == InitSpecScan /\ [][NextScan]_vars

InitSpecExpiry == InitCoord /\ InitAuthFresh /\ InitWs /\ InitAux

SpecExpiry == InitSpecExpiry /\ [][NextExpiry]_vars

----------------------------------------------------------------------------
(* Events applied to a published registry *)

\* the snapshots a poll can publish
PollSnapshots ==
    { [valid |-> TRUE,
       devices |-> [i \in 1..Len(Serials) |->
                      [serial |-> devices[i].serial, status |-> devices[i].status,
                       latest_status |-> GetLatestDeviceStatus(TRUE, reports[i])]]] :
        devices \in DeviceLists, reports \in [1..Len(Serials) -> ReportLists] }

\* the registry is any snapshot a poll published (or none yet), the realtime
\* listener is running
InitEvents ==
    /\ data \in PollSnapshots \cup {NoSnapshot}
    /\ websocket_started = TRUE
    /\ update_interval = HEALTH_CHECK_INTERVAL
    /\ pollPc = "idle"
    /\ fetched = <<>>
    /\ enhanced = <<>>
    /\ pollResult = IF data.valid THEN "ok" ELSE "none"
    /\ notified = 0
    /\ lastEvent = NoEvent
    /\ evRepeat = FALSE
    /\ evSince = NoEventSince
    /\ realtime = NoRealtime
    /\ statusFetch = "none"
    /\ InitAuthFresh
    /\ InitWs
    /\ InitAux

\* an event arrives between polls; the history records which event it was and
\* whether it repeats the one before it
ReceiveEvent(event_data) ==
    /\ websocket_started
    /\ ApplyEvent(event_data)
    /\ lastEvent' = event_data
    /\ evRepeat' = (lastEvent = event_data)
    /\ UNCHANGED evSince

NextEvents == \E event_data \in Events : ReceiveEvent(event_data)

SpecEvents == InitEvents /\ [][NextEvents]_vars

\* the listener over a published registry: the first refresh has published a
\* snapshot (or failed) when the frames of the connection it opened arrive
InitSpecListener ==
    /\ data \in PollSnapshots \cup {NoSnapshot}
    /\ websocket_started = FALSE
    /\ update_interval = UPDATE_INTERVAL
    /\ pollPc = "idle"
    /\ fetched = <<>>
    /\ enhanced = <<>>
    /\ pollResult = IF data.valid THEN "ok" ELSE "UpdateFailed"
    /\ notified = 0
    /\ lastEvent = NoEvent
    /\ evRepeat = FALSE
    /\ evSince = NoEventSince
    /\ realtime = NoRealtime
    /\ statusFetch = "none"
    /\ InitAuth
    /\ InitWs
    /\ InitAux

SpecListener == InitSpecListener /\ [][NextListener]_vars

----------------------------------------------------------------------------
(* Properties of the coordinator under Spec *)

StatusFields == {"gate", "relay"}

\* the step in which a poll result becomes the published snapshot
PollPublishes == pollPc = "get_status" /\ pollPc' = "idle" /\ pollResult' = "ok"

\* C1: when an event set a field of a device after the running poll fetched that
\* device's status, the snapshot the poll publishes still holds the event's value
\* for that field: a poll result fetched earlier never overwrites a newer event.
C1_EventValueSurvivesPoll ==
    [][PollPublishes =>
        \A i \in 1..Len(data'.devices) : \A f \in StatusFields :
            LET since == evSince[data'.devices[i].serial][f]
            IN since # None => data'.devices[i].latest_status[f] = since]_vars

----------------------------------------------------------------------------
(* Properties of the API client under SpecAuth *)

RestKinds == {"rest_json", "rest_text"}

\* C2: at most one authentication or token-refresh request (the POST to the login
\* or to the renew endpoint) is outstanding at a time.
C2_OneAuthRequestOutstanding ==
    Cardinality({c \in Callers : call[c].pc \in {"auth_post", "renew_post"}}) <= 1

\* C3: a REST call whose first response is token-expired while the refresh token
\* held is valid (the renew endpoint answers with an access token) posts to the
\* renew endpoint exactly once, re-sends the request exactly once with the token
\* that refresh returned, and returns the result when the retry answers 200.
C3_RefreshThenRetry ==
    \A c \in Callers :
        LET r == call[c]
        IN (r.kind \in RestKinds /\ r.first = "expired" /\ r.renewOk) =>
            /\ r.renewPosts = 1
            /\ r.authCalls = 0
            /\ r.pc \in {"retry_wait", "done"}
            /\ Len(r.sent) = 2
            /\ r.sent[2].req = r.sent[1].req
            /\ r.sent[2].token = r.renewTok
            /\ r.sent[2].token # r.sent[1].token
            /\ (r.retry = "ok" => r.pc = "done" /\ r.result = "ok")

\* the scenario of C3: the first request carried A1, the refresh returned A2, the
\* retry carried A2 and succeeded
C3_Witness ==
    \E c \in Callers :
        LET r == call[c]
        IN /\ r.kind \in RestKinds /\ r.first = "expired" /\ r.renewOk
           /\ r.pc = "done" /\ r.retry = "ok" /\ r.result = "ok"
           /\ r.sent[1].token = 1 /\ r.sent[2].token = 2

\* C4: when the request to the renew endpoint fails (error, non-200, or 200
\* without access token), _refresh_access_token calls authenticate exactly once
\* and then returns True or raises the authentication error.
C4_RefreshFailureAuthenticatesOnce ==
    \A c \in Callers :
        LET r == call[c]
        IN (r.renewPosts > 0 /\ r.pc # "renew_post" /\ ~r.renewOk) =>
            /\ r.authCalls = 1
            /\ r.refreshRet \in {"none", "True", "AuthError"}

\* C5: a REST call never sends its request more than twice; a first failure that
\* is not token expiry raises the API error with no refresh and no second
\* request; a token-expiry failure leads to one refresh and then one re-send of
\* the same method and url, and a failed retry raises the API error with no
\* further refresh.
C5_AtMostOneRetry ==
    \A c \in Callers :
        LET r == call[c]
        IN r.kind \in RestKinds =>
            /\ Len(r.sent) <= 2
            /\ r.refreshCalls <= 1
            /\ r.first \in {"none", "ok", "exc"} => (r.refreshCalls = 0 /\ Len(r.sent) <= 1)
            /\ r.first = "other" =>
                (r.pc = "done" /\ r.result = "APIError" /\ r.refreshCalls = 0 /\ Len(r.sent) = 1)
            /\ r.first = "expired" => r.refreshCalls = 1
            /\ (r.first = "expired" /\ r.refreshRet = "True") =>
                (Len(r.sent) = 2 /\ r.sent[2].req = r.sent[1].req)
            /\ (r.first = "expired" /\ r.refreshRet # "True") => Len(r.sent) = 1
            /\ r.retry = "failed" =>
                (r.pc = "done" /\ r.result = "APIError" /\ r.refreshCalls = 1 /\ Len(r.sent) = 2)

\* an expired first response, a refresh, and a retry that failed with the API error
C5_Witness ==
    \E c \in Callers :
        LET r == call[c]
        IN /\ r.kind = "rest_text" /\ r.first = "expired" /\ r.refreshRet = "True"
           /\ r.retry = "failed" /\ r.result = "APIError" /\ Len(r.sent) = 2

\* C13: a REST operation whose request fails at network level (connection error
\* or timeout) ends with the API error, never with the authentication error and
\* never with a raw timeout or client exception.
C13_NetworkFailureIsApiError ==
    \A c \in Callers :
        LET r == call[c]
        IN (r.kind \in RestKinds /\ r.pc = "done" /\ (r.first = "exc" \/ r.retry = "exc"))
              => r.result = "APIError"

\* C14: a caller that invokes authenticate while another authenticate is in
\* flight waits for it and observes its result without sending a login request
\* of its own: overlapping authenticate calls make one network call.
C14_WaiterSendsNoLogin ==
    [][\A c \in Callers : call[c].pc = "auth_lock" => call'[c].pc # "auth_post"]_vars

----------------------------------------------------------------------------
(* Properties of event application under SpecEvents *)

\* the record the event of this step names, 0 when the handler finds none
EventTarget(event_data) ==
    IF data.valid /\ event_data.has_status /\ event_data.serial # None
    THEN FirstIndex(data.devices, event_data.serial)
    ELSE 0

\* C9: an event applied to a known device sets latest_status and the mirrored raw
\* status of every field (gate, relay) that is present, non-null and differs from
\* the current latest_status; async_set_updated_data is called exactly once when
\* at least one field changed and not at all otherwise.
C9_EventApplied ==
    [][LET e == lastEvent'
           i == EventTarget(e)
       IN i # 0 =>
           LET old == data.devices[i]
               new == data'.devices[i]
               differs(f) == e[f] # None /\ old.latest_status[f] # e[f]
           IN /\ \A f \in StatusFields :
                    differs(f) => new.latest_status[f] = e[f] /\ new.status[f] = e[f]
              /\ notified' = IF \E f \in StatusFields : differs(f) THEN 1 ELSE 0]_vars

\* the scenario of C9: {"serial":"X1","status":{"gate":"open","relay":"off"}}
\* changed the record of X1 and notified once
C9_Witness ==
    /\ lastEvent = [serial |-> "X1", has_status |-> TRUE, gate |-> "open", relay |-> "off"]
    /\ notified = 1
    /\ data.devices[1].latest_status.gate = "open"
    /\ data.devices[1].latest_status.relay = "off"
    /\ data.devices[1].status = [gate |-> "open", relay |-> "off"]

\* C10: the same event applied twice in a row is idempotent: the second
\* application changes no field of any record and makes no notification.
C10_EventIdempotent ==
    [][evRepeat' => (data' = data /\ notified' = 0)]_vars

\* a second application of an event that names a field of a known device
C10_Witness ==
    /\ evRepeat
    /\ data.valid
    /\ lastEvent.serial = Serials[1]
    /\ lastEvent.gate = "open"
    /\ data.devices[1].latest_status.gate = "open"
    /\ notified = 0

\* C11: an event leaves untouched everything it does not name: a field absent or
\* null in the event keeps its value in latest_status and in the raw status, the
\* rest of the record and the records of other serials are unchanged, and an
\* event the handler finds no record for (unlisted serial, no snapshot, no serial
\* or no status) changes nothing and makes no notification.
C11_EventFrame ==
    [][LET e == lastEvent'
           i == EventTarget(e)
       IN IF i = 0
          THEN data' = data /\ notified' = 0
          ELSE LET old == data.devices[i]
                   new == data'.devices[i]
               IN /\ data'.valid = data.valid
                  /\ Len(data'.devices) = Len(data.devices)
                  /\ \A j \in 1..Len(data.devices) :
                        j # i => data'.devices[j] = data.devices[j]
                  /\ new.serial = old.serial
                  /\ new.latest_status.last_action = old.latest_status.last_action
                  /\ new.latest_status.last_user = old.latest_status.last_user
                  /\ \A f \in StatusFields :
                        e[f] = None => /\ new.latest_status[f] = old.latest_status[f]
                                       /\ new.status[f] = old.status[f]]_vars

\* an event that names only the gate of X1 changed it and kept the relay
C11_Witness ==
    /\ lastEvent = [serial |-> Serials[1], has_status |-> TRUE, gate |-> "open",
                    relay |-> None]
    /\ notified = 1
    /\ data.devices[1].latest_status.gate = "open"
    /\ data.devices[1].latest_status.relay \in RelayValues
    /\ data.devices[1].status.relay \in RelayValues

----------------------------------------------------------------------------
(* Properties of the reconnect supervisor under SpecReconnect *)

\* the tasks about to wait the delay of a reconnect attempt
Sleeping == {c \in Callers : wsTask[c].pc = "sleep"}

\* C6, as the specification states it: counting the attempts from 1 since the
\* counter was last reset, the delay waited before the connect attempt is the
\* base delay for attempts 1 to 5, twice the base for attempt 6, four times the
\* base for attempt 7, and never more than 60 times the base
C6_BackoffAsStated ==
    \A c \in Sleeping :
        LET n == wsTask[c].attempt
            d == wsTask[c].delay
        IN /\ n \in 1..5 => d = WEBSOCKET_RECONNECT_DELAY
           /\ n = 6 => d = WEBSOCKET_RECONNECT_DELAY * 2
           /\ n = 7 => d = WEBSOCKET_RECONNECT_DELAY * 4
           /\ d <= WEBSOCKET_RECONNECT_DELAY * 60

\* C6, amended: the delay waited before the connect attempt is the base delay
\* for attempts 1 to 6, twice the base for attempt 7, four times the base for
\* attempt 8, and never more than 60 times the base
C6_BackoffByCounter ==
    \A c \in Sleeping :
        LET n == wsTask[c].attempt
            d == wsTask[c].delay
        IN /\ n \in 1..6 => d = WEBSOCKET_RECONNECT_DELAY
           /\ n = 7 => d = WEBSOCKET_RECONNECT_DELAY * 2
           /\ n = 8 => d = WEBSOCKET_RECONNECT_DELAY * 4
           /\ d <= WEBSOCKET_RECONNECT_DELAY * 60

\* attempt 7 waits twice the base delay
C6_Witness ==
    \E c \in Sleeping :
        wsTask[c].attempt = 7 /\ wsTask[c].delay = WEBSOCKET_RECONNECT_DELAY * 2

\* the tasks that have computed the delay of their reconnect attempt
Delayed == {c \in Callers : wsTask[c].pc \in {"refresh", "sleep"}}

\* the multiplier of the fixed delay for the counter values 5 to 10
Doubling == <<1, 2, 4, 8, 16, 32>>

\* C15: with c the reconnect counter on entry (after the stability check), the
\* delay is the fixed delay when c < 5 and fixed_delay * min(2^(c-5), 60) when
\* c >= 5; it is non-decreasing in c and never exceeds 60 times the fixed delay.
C15_DelayOfCounter ==
    /\ \A t \in Delayed :
          LET c == wsTask[t].attempt - 1
              d == wsTask[t].delay
          IN /\ c < 5 => d = 5
             /\ c \in 5..10 => d = 5 * Doubling[c - 4]
             /\ c >= 11 => d = 5 * 60
             /\ d <= 300
    /\ \A c \in 0..websocket_reconnect_count :
          /\ ReconnectDelay(c) <= ReconnectDelay(c + 1)
          /\ ReconnectDelay(c) <= 300

\* the counter found at 11: the multiplier 2^6 is cut to 60
C15_Witness ==
    \E t \in Delayed :
        wsTask[t].pc = "sleep" /\ wsTask[t].attempt = 12 /\ wsTask[t].delay = 300

\* the run has used up the logins, the connections or the counter values it has
ReconnectBudgetSpent ==
    \/ nextTok > MaxTok
    \/ nextConn > MaxConn
    \/ websocket_reconnect_count >= MaxFairReconnect

\* C16: reconnection never gives up: whatever the reconnect counter, while
\* refreshes keep occurring and the server accepts logins and connections again,
\* a disconnected transport becomes connected (within the logins, connections and
\* counter values of a run).
C16_NeverGivesUp ==
    (~websocket_connected) ~> (websocket_connected \/ ReconnectBudgetSpent)

\* a connection made after failed reconnect attempts past the standard retries
C16_Witness ==
    /\ websocket_connected
    /\ lastReset.kind = "connect"
    /\ lastReset.failed
    /\ lastReset.count > WEBSOCKET_MAX_RETRIES

\* C17: when the counter had escalated past the standard retries, a connection
\* was then made and stayed up longer than the stability window, the first
\* reconnect attempt after the disconnect waits the base delay.
C17_BaseDelayAfterStableConnection ==
    (/\ lastConnection.escalated
     /\ lastConnection.ended = "stable"
     /\ lastConnection.firstDelay # 0)
        => lastConnection.firstDelay = WEBSOCKET_RECONNECT_DELAY

\* such a first reconnect attempt
C17_Witness ==
    /\ lastConnection.escalated
    /\ lastConnection.ended = "stable"
    /\ lastConnection.firstDelay = WEBSOCKET_RECONNECT_DELAY
    /\ wsTask[Scheduled].pc = "sleep"
    /\ wsTask[Scheduled].attempt = 1

\* C7: the stability rule resets the reconnect counter only when more than the
\* stability window has passed since the last reset and no reconnect attempt
\* failed in that interval
C7_StabilityResetOnlyWhenStable ==
    lastReset.kind = "stability" => ~lastReset.failed

----------------------------------------------------------------------------
(* Properties of the realtime transport under SpecWs *)

OpenSockets == {n \in 1..MaxConn : conn[n].socket = "open"}

RunningListeners == {n \in 1..MaxConn : conn[n].listener = "running"}

\* C8: under any interleaving of start_websocket, ensure_websocket_connected,
\* stop_websocket and listener exit, at most one listener task runs and at most
\* one realtime socket is open; no listener is started while another one runs
C8_OneSocketOneListener ==
    /\ Cardinality(OpenSockets) <= 1
    /\ Cardinality(RunningListeners) <= 1

----------------------------------------------------------------------------
(* Properties of the expiry predicate under SpecExpiry *)

\* the body names an expiry error: the structured name, or a known phrase
\* anywhere in it, whatever the case
NamesExpiry(body) ==
    \/ body.parsed = "object" /\ body.name = "TokenExpiredError"
    \/ Contains(Lower(body.text), JwtExpired)
    \/ Contains(Lower(body.text), TokenExpired)

\* C12: the expiry predicate returns true exactly when the status is 401 or 400,
\* or the status is 500 and the body names a token/JWT expiry error (structured
\* name TokenExpiredError, or a case-insensitive occurrence of 'jwt expired' or
\* 'token expired' in the body); for every other status it returns false
C12_ExpiryPredicate ==
    expired # "none" =>
        (expired = "True") = (\/ response_status \in {401, 400}
                              \/ response_status = 500 /\ NamesExpiry(response_text))


\* C18: a start_websocket or ensure_websocket_connected entered while the
\* connected flag is set and the socket is open returns True at once and
\* changes nothing: counter, retry-reset time, socket, session and listener
\* task stay as they are, and the caller neither connects nor sleeps
C18_ConnectedCallIsNoOp ==
    connectedCall.fn # "none" => connectedCall.value = "True" /\ connectedCall.noop

\* ensure_websocket_connected alone, entered with the transport connected
C18_EnsureIsNoOp ==
    connectedCall.fn = "ensure_websocket_connected"
        => connectedCall.value = "True" /\ connectedCall.noop


----------------------------------------------------------------------------
(* Properties of SpecFrames *)

\* the steps of a connection, in the order of the protocol
FullHandshake == <<"open", "in0", "out40", "in40">>

\* C19: the transport is reported connected, and the namespace marked
\* connected, only after the socket opened, a "0" frame came in, "40" went
\* out and a "40" frame came in, in that order, whatever frames the server sends
C19_ConnectedOnlyAfterHandshake ==
    (websocket_connected \/ websocket_namespace_connected) => phaseLog = FullHandshake

\* the namespace flag alone
C19_NamespaceOnlyAfterHandshake ==
    websocket_namespace_connected => phaseLog = FullHandshake


\* text m is among the frames sent
Sent(frames, m) == \E i \in 1..Len(frames) : frames[i] = m

\* C20: a frame starting with "0" is answered with exactly one "40" and no
\* "3"; any other frame is followed by exactly one "3" when the namespace is
\* confirmed and the socket open, and by nothing otherwise; no "3" goes out
\* before the namespace acknowledgment of the connection came in
C20_FrameReplies ==
    lastFrame.handled =>
        /\ IF StartsWith(lastFrame.message, HandshakeFrame)
           THEN lastFrame.sent = <<NamespaceFrame>>
           ELSE lastFrame.sent = IF lastFrame.after /\ lastFrame.open
                                 THEN <<PongFrame>> ELSE <<>>
        /\ Sent(lastFrame.sent, PongFrame) => Sent(lastFrame.log, "in40")

\* a ping is answered after the full handshake
C20_PingAnswered ==
    /\ lastFrame.handled
    /\ lastFrame.message = <<"2">>
    /\ lastFrame.sent = <<PongFrame>>
    /\ lastFrame.log = FullHandshake


----------------------------------------------------------------------------
(* Properties of SpecListener *)

\* the frame handled in this step
Handles(texts) == lastFrame' # lastFrame /\ lastFrame'.message \in texts

Texts(frames) == {message.text : message \in frames}

\* the listeners stay as they are
ListenersUnchanged ==
    \A n \in 1..MaxConn : conn'[n].listener = conn[n].listener

ListenerStops(n) == conn[n].listener = "running" /\ conn'[n].listener = "done"

----------------------------------------------------------------------------
(* Properties of SpecRefresh *)

\* C23: when no valid access token can be had before a reconnect attempt (none
\* held, or refresh and login fail), ensure_websocket_connected returns False
\* without reaching start_websocket and raises nothing, and no realtime step
\* ends in an exception, so none fails the poll
C23_NoTokenAbortsQuietly ==
    realtime.op # "none" =>
        /\ realtime.result \in {"True", "False"}
        /\ (/\ realtime.op = "ensure_websocket_connected"
            /\ realtime.path \in {"no_token", "refresh_failed"})
              => realtime.result = "False"

\* the case of no access token held
C23_NoTokenHeldAborts ==
    (realtime.op = "ensure_websocket_connected" /\ realtime.path = "no_token")
        => realtime.result = "False" /\ pollPc = "get_devices"

\* the refresh takes its realtime step
RealtimeStep == pollPc = "idle" /\ realtime' # NoRealtime /\ realtime' # realtime

\* C24: every refresh goes on to the REST poll, whatever its realtime step
\* (start_websocket or ensure_websocket_connected) ended with
C24_RefreshAlwaysPolls ==
    [][RealtimeStep => pollPc' = "get_devices"]_vars


\* get_devices raised in this step
PollFails == pollPc = "get_devices" /\ pollPc' = "idle" /\ pollResult' # "ok"

\* C25: when listing the devices fails (timeout, connection error,
\* authentication failure, API error) the refresh ends with UpdateFailed and
\* with no other exception, and the published snapshot is as it was
C25_FailedPollKeepsSnapshot ==
    [][PollFails => pollResult' = "UpdateFailed" /\ data' = data]_vars

\* a poll failed at get_devices after an earlier one had published devices
C25_Witness ==
    /\ pollPc = "idle"
    /\ pollResult = "UpdateFailed"
    /\ realtime = NoRealtime
    /\ data.valid
    /\ Len(data.devices) = Len(Serials)


\* the poll takes the latest status of its next device in this step
StatusStep == pollPc = "get_status" /\ (enhanced' # enhanced \/ pollPc' = "idle")

\* the records the poll holds after the step: the published ones when it ended
StatusStepRecords == IF pollPc' = "idle" THEN data'.devices ELSE enhanced'

\* C26: a failed latest-status fetch does not abort the poll: the device gets
\* the all-absent status, the records enhanced before it are as they were, and
\* the published result holds one record per listed device, in list order
C26_FailedStatusFetchIsAbsent ==
    [][StatusStep =>
          LET k == Len(enhanced) + 1
              out == StatusStepRecords
          IN /\ Len(out) = k
             /\ \A i \in 1..Len(enhanced) : out[i] = enhanced[i]
             /\ out[k].serial = fetched[k].serial
             /\ statusFetch' = "failed" => out[k].latest_status = AbsentStatus
             /\ pollPc' = "idle" =>
                   /\ pollResult' = "ok"
                   /\ Len(out) = Len(fetched)
                   /\ \A i \in 1..Len(out) : out[i].serial = fetched[i].serial]_vars

\* a poll published both devices although the status fetch of the second
\* failed; the first keeps the status its own reports gave
C26_Witness ==
    /\ pollPc = "idle"
    /\ pollResult = "ok"
    /\ statusFetch = "failed"
    /\ Len(data.devices) = Len(Serials)
    /\ data.devices[2].latest_status = AbsentStatus
    /\ data.devices[1].latest_status.gate = "open"
    /\ data.devices[1].latest_status.relay = "off"


----------------------------------------------------------------------------
(* Properties of SpecScan *)

\* index of the first report whose target contains the label, 0 when none does
FirstReport(reports, kind) ==
    IF \E i \in 1..Len(reports) : reports[i].kind = kind
    THEN CHOOSE i \in 1..Len(reports) :
            /\ reports[i].kind = kind
            /\ \A j \in 1..(i - 1) : reports[j].kind # kind
    ELSE 0

\* the status token of that report
FirstToken(reports, kind) ==
    IF FirstReport(reports, kind) = 0 THEN None
    ELSE reports[FirstReport(reports, kind)].token

\* the page of the example: gate open by Alice at t2, relay off by Bob at t1
ExamplePage ==
    <<Report("gate", TRUE, "open", "t2", "Alice"), Report("relay", TRUE, "off", "t1", "Bob")>>

\* the gate and the relay are those of the first report with each label
FirstOfEach ==
    /\ scan.result.gate = FirstToken(scan.reports, "gate")
    /\ scan.result.relay = FirstToken(scan.reports, "relay")
    /\ scan.reports = ExamplePage =>
          scan.result = [gate |-> "open", relay |-> "off",
                         last_action |-> "t2", last_user |-> "Alice"]

\* C27: for every report list, gate is the status token of the first report
\* whose target contains "gate:" and relay that of the first whose target
\* contains "relay:", each found on its own; the example page gives gate open,
\* relay off, last_action t2, last_user Alice
C27_FirstGateFirstRelay == scan.done => FirstOfEach

\* the same for pages where a space follows every label
C27_SpacedLabels ==
    (scan.done /\ \A i \in 1..Len(scan.reports) : scan.reports[i].spaced) => FirstOfEach


----------------------------------------------------------------------------
(* Properties of the published last_action / last_user *)

\* the position in time of a createdAt value; absent is before everything
TimeOf(created_at) ==
    CASE created_at = "t1" -> 1
      [] created_at = "t2" -> 2
      [] created_at = "t3" -> 3
      [] OTHER -> 0

\* the published latest_status of `serial` in snapshot `snap`, absent when the
\* snapshot does not hold the device
PublishedStatus(snap, serial) ==
    IF snap.valid /\ FirstIndex(snap.devices, serial) # 0
    THEN snap.devices[FirstIndex(snap.devices, serial)].latest_status
    ELSE AbsentStatus

\* a device's last_action does not go back in time or to absent, and last_user
\* stays with it
MovesForward(old, new) ==
    old.last_action # None =>
        /\ new.last_action # None
        /\ TimeOf(new.last_action) >= TimeOf(old.last_action)
        /\ new.last_action = old.last_action => new.last_user = old.last_user

\* C28: across polls and events, once a device's published last_action is set
\* it is never replaced by an older report's values and never reverts to absent
C28_LastActionOnlyAdvances ==
    [][\A serial \in SerialSet :
          MovesForward(PublishedStatus(data, serial), PublishedStatus(data', serial))]_vars

\* a realtime event leaves every published last_action / last_user as it was
C28_EventsKeepLastAction ==
    [][(\E serial \in SerialSet :
           PublishedStatus(data', serial).last_action # PublishedStatus(data, serial).last_action
           \/ PublishedStatus(data', serial).last_user # PublishedStatus(data, serial).last_user)
       => pollPc = "get_status" /\ pollPc' = "idle"]_vars


----------------------------------------------------------------------------
(* Properties of SpecReaders *)

\* C29: a registry object an entity got is never written afterwards: every
\* update (poll, realtime event, name refresh) builds an object of its own and
\* publishes it, so the entity still sees what it got
C29_HeldSnapshotNeverMutated == reader.holds # "none" => ~reader.written

\* a step of a poll
PollStep == pollPc' # pollPc \/ enhanced' # enhanced

\* a poll builds a list of its own: it writes to no object an entity holds
C29_PollBuildsItsOwn == [][PollStep => reader'.written = reader.written]_vars


----------------------------------------------------------------------------
(* Properties of the held credentials under SpecAuth *)

\* the step changes a held token
CredentialsChange == access_token' # access_token \/ refresh_token' # refresh_token

\* the step is a login or a renewal that the service answered with a new access
\* token
TokenObtained == nextTok' = nextTok + 1 /\ access_token' = nextTok

\* C30: the held access and refresh token change only when authenticate or the
\* token refresh succeeds (no explicit clear happens while the client runs): a
\* call that fails leaves both exactly as they were
C30_FailedCallKeepsCredentials == [][CredentialsChange => TokenObtained]_vars

\* a call that fails either keeps the held tokens or drops the access token
C30_FailedCallKeepsOrDrops ==
    [][CredentialsChange => TokenObtained \/ access_token' = NoToken]_vars


----------------------------------------------------------------------------
(* Properties of the token refresh under SpecAuth *)

\* caller c enters _refresh_access_token in this step
RefreshEntered(c) ==
    /\ call[c].pc \in {"idle", "done", "rest_wait"}
    /\ call'[c] # call[c]
    /\ call'[c].refreshCalls = 1

\* the renewal of caller c is answered with an access token in this step
RenewSucceeds(c) == call[c].pc = "renew_post" /\ call'[c].renewOk

----------------------------------------------------------------------------
(* Properties of authenticate under SpecAuth *)

\* the login of caller c is answered in this step
AuthAnswered(c) == call[c].pc = "auth_post" /\ call'[c] # call[c]

----------------------------------------------------------------------------
(* Properties of the config flow under SpecFlow *)

\* the login of the connection test was answered with a rejecting status
CredentialsRejected == flow.auth = "status" /\ flow.result = "AuthError"

\* the connection test failed for the network or the API
NetworkOrApiFailure == flow.result \in {"APIError", "TimeoutError"}

\* C33: validate_input ends in "cannot connect" when the connection test failed
\* for the network or the API and in "invalid auth" when the credentials were
\* rejected
C33_FlowTellsFailuresApart ==
    flow.pc = "done" =>
        /\ NetworkOrApiFailure => flow.outcome = "cannot_connect"
        /\ CredentialsRejected => flow.outcome = "invalid_auth"

\* every failure of the connection test ends in "cannot connect"
C33_EveryFailureCannotConnect ==
    (flow.pc = "done" /\ flow.test # "True") => flow.outcome = "cannot_connect"


----------------------------------------------------------------------------
(* Properties of the momentary door under SpecCover *)

\* the reset task that a later activation cancelled has ended
SupersededAndEnded(t) == cover.timers[t].superseded /\ cover.timers[t].state = "done"

\* C34: when a new momentary command supersedes a pending reset task, the task is
\* cancelled and still applies its reset (momentary_active set to False, state
\* written)
C34_SupersededTimerStillResets ==
    \A t \in Activations :
        /\ cover.timers[t].superseded => cover.timers[t].state \in {"cancelling", "done"}
        /\ SupersededAndEnded(t) => cover.timers[t].reset

\* a superseded task that had started sleeping applies its reset
C34_StartedTimerStillResets ==
    \A t \in Activations :
        (SupersededAndEnded(t) /\ cover.timers[t].started) => cover.timers[t].reset

\* the superseded task t ends in this step
SupersededEnds(t) ==
    /\ cover.timers[t].superseded
    /\ cover.timers[t].state = "cancelling"
    /\ cover'.timers[t].state = "done"

\* C36: after an activation, momentary_active stays true until the reset task of
\* that activation fires, also when the activation superseded an earlier pending
\* task: the reset of the cancelled task never clears the flag the newer
\* activation has set
C36_CancelledResetSparesNewer ==
    [][\A t \in Activations :
          (SupersededEnds(t) /\ cover.momentary_active) => cover'.momentary_active]_vars

\* after an activation whose control call succeeded, momentary_active is true
\* until the reset task created for that activation fires
C36_ActiveUntilOwnTimerFires ==
    \A k \in Activations :
        (cover.acts[k].result = "ok" /\ cover.timers[k].state \in {"created", "sleeping"})
            => cover.momentary_active

\* with one activation at a time and no earlier task pending, the flag holds
\* until the activation's own task fires
C36_LoneActivationStaysActive ==
    \A k \in Activations :
        (/\ cover.acts[k].result = "ok"
         /\ cover.timers[k].state \in {"created", "sleeping"}
         /\ \A j \in Activations \ {k} :
                cover.acts[j].pc \in {"idle"} /\ cover.timers[j].state = "none")
            => cover.momentary_active


----------------------------------------------------------------------------
(* Properties of the momentary door under SpecCoverFair *)

\* C40: every momentary activation ends with momentary_active false, whatever
\* activations, cancellations and removal follow: the flag is never left true
\* forever
C40_ActivationEventuallyInactive == cover.momentary_active ~> ~cover.momentary_active

\* as long as the entity is not removed, every activation ends with the flag false
C40_InactiveUnlessRemoved ==
    cover.momentary_active ~> (~cover.momentary_active \/ cover.removed)


----------------------------------------------------------------------------
(* Properties of the transport's sessions under SpecReconnect *)

\* the client sessions start_websocket created that are not closed
OpenSessions == {n \in 1..MaxConn : conn[n].session = "open"}

\* the client sessions the API does not refer to any more
Unreferenced == {n \in 1..MaxConn : conn[n].session # "none" /\ websocket_session # n}

\* C37: every session start_websocket created is closed before the reference to
\* it is overwritten or dropped: at most one unclosed session exists, and it is
\* the one the API refers to (or one whose connect is being awaited)
C37_NoSessionLeaked ==
    /\ Cardinality(OpenSessions) <= 1
    /\ \A n \in Unreferenced : conn[n].session = "closed"

\* a session is closed only by _cleanup_websocket, which closes the one the API
\* refers to
C37_CleanupClosesReferenced ==
    [][\A n \in 1..MaxConn :
          (conn[n].session = "open" /\ conn'[n].session = "closed") => websocket_session = n]_vars


----------------------------------------------------------------------------
(* Properties of the poll interval under SpecReconnect *)

\* C38: whenever the realtime transport is disconnected the poll interval is
\* the short fallback cadence, also after an established connection is lost
C38_ShortCadenceWhileDisconnected ==
    ~websocket_connected => update_interval = UPDATE_INTERVAL

\* the interval is the long cadence exactly from the first successful
\* start_websocket on, whatever becomes of the connection
C38_LongCadenceOnceStarted ==
    update_interval = (IF websocket_started THEN HEALTH_CHECK_INTERVAL ELSE UPDATE_INTERVAL)

\* nothing sets the interval back to the fallback cadence
C38_IntervalNeverShortened == [][update_interval' >= update_interval]_vars


----------------------------------------------------------------------------
(* Properties of the teardown under SpecWs *)

\* stop_websocket returns to async_unload_entry in this step
StopReturns == wsTask["unload"].pc # "done" /\ wsTask'["unload"].pc = "done"

\* nothing of the transport is left: no listener runs (so no device-update
\* callback can be delivered), no socket and no client session is open, and
\* both flags are false
TornDown(flag, namespace_flag, connections) ==
    /\ ~flag
    /\ ~namespace_flag
    /\ \A n \in 1..MaxConn :
          /\ connections[n].listener # "running"
          /\ connections[n].socket # "open"
          /\ connections[n].session # "open"

\* C35: when stop_websocket returns, from any transport state, the listener has
\* ended, the socket and the client session are closed and both flags are false
C35_StopLeavesNothing ==
    [][StopReturns => TornDown(websocket_connected', websocket_namespace_connected',
                               conn')]_vars

\* the same for the rest of the run: nothing of the transport is live after
\* stop_websocket returned
C35_NothingAfterStop ==
    wsTask["unload"].pc = "done" =>
        TornDown(websocket_connected, websocket_namespace_connected, conn)

\* no refresh is in flight and every session opened so far is the referenced one
\* or closed
Quiescent ==
    /\ \A c \in Callers : wsTask[c].pc = "idle"
    /\ \A n \in 1..MaxConn : conn[n].session = "open" => websocket_session = n

\* stop_websocket that returns with no refresh in flight and no session leaked
\* before has torn everything down
C35_QuiescentStopLeavesNothing ==
    [][(StopReturns /\ Quiescent)
         => TornDown(websocket_connected', websocket_namespace_connected', conn')]_vars

\* stop_websocket always clears the three references when it returns
C35_StopClearsReferences ==
    [][StopReturns => /\ websocket' = 0
                      /\ websocket_session' = 0
                      /\ websocket_listener_task' = 0]_vars


----------------------------------------------------------------------------
(* Properties of the switch under SpecSwitch *)

\* C39: a command whose control call succeeds completes without error and
\* without waiting, having scheduled exactly one refresh 1.5 s later; one whose
\* control call fails raises the error and schedules nothing
C39_CommandSchedulesOneRefresh ==
    [][(sw.pc = "controlling" /\ sw'.pc = "done") =>
         IF sw'.control = "ok"
         THEN /\ sw'.result = "ok"
              /\ ~sw'.waited
              /\ sw'.scheduled = Append(sw.scheduled, DelayedRefresh)
         ELSE /\ sw'.result = sw'.control
              /\ sw'.scheduled = sw.scheduled]_vars

\* the failing half alone: the error of the control call propagates and no
\* refresh is scheduled
C39_FailedControlPropagates ==
    [][(sw.pc = "controlling" /\ sw'.pc = "done" /\ sw'.control # "ok") =>
         /\ sw'.result = sw'.control
         /\ sw'.scheduled = sw.scheduled]_vars

\* no command of a switch ever schedules a refresh or ends without an error
C39_NoCommandSucceeds ==
    /\ sw.scheduled = <<>>
    /\ sw.result # "ok"
    /\ (sw.pc = "done" /\ sw.control = "ok") => sw.result = "NameError"

====
